---- MODULE Spec2Model ----
(***************************************************************************)
(* Conflagent: a REST facade over the Confluence content API that manages  *)
(* the subtree of pages below one configured root page.                    *)
(*                                                                         *)
(* The remote wiki is the only state.  The client functions of             *)
(* conflagent_core/confluence.py are operators over a context              *)
(*   ctx = [w: the wiki, calls: the remote calls issued so far,            *)
(*          fault: the call that the remote answers with an error]         *)
(* and return the context after their remote calls, a status (200 or the   *)
(* status the function aborted with) and a value.                          *)
(***************************************************************************)
EXTENDS Integers, Sequences, FiniteSets, TLC

\* ------------------------------------------------------------------------
\* Bounds
\* ------------------------------------------------------------------------
MaxId == 7
MaxOps == 2

\* ------------------------------------------------------------------------
\* Identifiers, titles, bodies
\* ------------------------------------------------------------------------
root_page_id == 1
SpaceHome == root_page_id - 1
NoPage == SpaceHome - 1
\* A page older than the root: the remote lists it before the root
OldId == NoPage - 1
PageIds == {OldId} \cup SpaceHome..MaxId
DynIds == (root_page_id + 1)..MaxId

\* Strings are sequences of characters; "/" is the path separator.
Slash == "/"
TA == <<"A">>
TB == <<"B">>
TC == <<"C">>
TAB == <<"A", "/", "B">>
RootTitle == <<"R">>

\* ------------------------------------------------------------------------
\* String helpers (Python str.strip("/"), str.split("/"), "/".join)
\* ------------------------------------------------------------------------
RECURSIVE StripLeft(_)
StripLeft(s) ==
    IF s # <<>> /\ Head(s) = Slash THEN StripLeft(Tail(s)) ELSE s

RECURSIVE StripRight(_)
StripRight(s) ==
    IF s # <<>> /\ s[Len(s)] = Slash
    THEN StripRight(SubSeq(s, 1, Len(s) - 1))
    ELSE s

Strip(s) == StripRight(StripLeft(s))

RECURSIVE Split(_)
Split(s) ==
    IF \E i \in 1..Len(s) : s[i] = Slash
    THEN LET i == CHOOSE k \in 1..Len(s) :
                     s[k] = Slash /\ \A j \in 1..(k - 1) : s[j] # Slash
         IN <<SubSeq(s, 1, i - 1)>> \o Split(SubSeq(s, i + 1, Len(s)))
    ELSE <<s>>

RECURSIVE Join(_)
Join(parts) ==
    IF parts = <<>> THEN <<>>
    ELSE IF Len(parts) = 1 THEN parts[1]
    ELSE parts[1] \o <<Slash>> \o Join(Tail(parts))

\* ------------------------------------------------------------------------
\* The remote wiki (Confluence content REST API)
\* ------------------------------------------------------------------------
Live(w, id) == id \in PageIds /\ w[id].state = "live"

RECURSIVE AncestorIds(_, _, _)
AncestorIds(w, id, fuel) ==
    IF fuel = 0 \/ w[id].parent = NoPage THEN <<>>
    ELSE Append(AncestorIds(w, w[id].parent, fuel - 1), w[id].parent)

\* The ancestor array of a page: [{id, title}] from the top of the space
\* down to the immediate parent
Ancestors(w, id) ==
    [i \in 1..Len(AncestorIds(w, id, Cardinality(PageIds))) |->
        [id |-> AncestorIds(w, id, Cardinality(PageIds))[i],
         title |-> w[AncestorIds(w, id, Cardinality(PageIds))[i]].title]]

\* A page as returned with expand=ancestors,version
PageView(w, id) ==
    [id |-> id, title |-> w[id].title, ancestors |-> Ancestors(w, id),
     version |-> w[id].version]

\* The ids of a set in the remote's listing order (ascending id)
RECURSIVE SortedIds(_)
SortedIds(S) ==
    IF S = {} THEN <<>>
    ELSE <<CHOOSE x \in S : \A y \in S : x <= y>>
             \o SortedIds(S \ {CHOOSE x \in S : \A y \in S : x <= y})

ChildIds(w, id) == SortedIds({c \in PageIds : Live(w, c) /\ w[c].parent = id})

None == [id |-> NoPage, title |-> <<>>, ancestors |-> <<>>, version |-> 0]
IsNone(page) == page.id = NoPage

\* A remote response: its status, the wiki afterwards and the JSON payload
Response(status, w, results, page, body) ==
    [status |-> status, w |-> w,
     data |-> [results |-> results, page |-> page, body |-> body]]

Failure(status, w) == Response(status, w, <<>>, None, <<>>)

\* GET /content/{id}/child/page: the children as returned by a listing (no
\* expansion)
RemoteChildren(w, id) ==
    IF ~Live(w, id) THEN Failure(404, w)
    ELSE Response(200, w,
                  [i \in 1..Len(ChildIds(w, id)) |->
                      [id |-> ChildIds(w, id)[i],
                       title |-> w[ChildIds(w, id)[i]].title,
                       ancestors |-> <<>>,
                       version |-> w[ChildIds(w, id)[i]].version]],
                  None, <<>>)

\* GET /content?spaceKey&title&expand=ancestors
RemoteSearch(w, title) ==
    Response(200, w,
             [i \in 1..Cardinality({p \in PageIds :
                                        Live(w, p) /\ w[p].title = title}) |->
                 PageView(w, SortedIds({p \in PageIds :
                                           Live(w, p) /\ w[p].title = title})[i])],
             None, <<>>)

\* GET /content/{id}?expand=...
RemoteGet(w, id) ==
    IF ~Live(w, id) THEN Failure(404, w)
    ELSE Response(200, w, <<>>, PageView(w, id), w[id].body)

FreePage == [state |-> "free", title |-> <<>>, body |-> <<>>, version |-> 0,
             parent |-> NoPage]

\* POST /content: the remote assigns the id; a new page has version 1.
\* Status 0 marks a POST beyond the page ids of the model (see Finish).
RemotePost(w, title, parent, body) ==
    IF ~Live(w, parent) THEN Failure(400, w)
    ELSE LET free == {i \in DynIds : w[i].state = "free"}
             id == CHOOSE i \in free : \A j \in free : i <= j
             w2 == [w EXCEPT ![id] =
                       [state |-> "live", title |-> title, body |-> body,
                        version |-> 1, parent |-> parent]]
         IN  IF free = {} THEN Failure(0, w)
             ELSE Response(200, w2, <<>>, PageView(w2, id), w2[id].body)

\* PUT /content/{id}: the remote accepts a write only when its version is
\* the current version plus one.  hasBody / hasParent tell which of the
\* optional parts (body, ancestors) the payload carries.
RemotePut(w, id, title, version, hasBody, body, hasParent, parent) ==
    IF ~Live(w, id) THEN Failure(404, w)
    ELSE IF version # w[id].version + 1 THEN Failure(409, w)
    ELSE IF hasParent /\ ~Live(w, parent) THEN Failure(400, w)
    ELSE LET w2 == [w EXCEPT ![id] =
                       [state |-> "live", title |-> title,
                        body |-> IF hasBody THEN body ELSE w[id].body,
                        version |-> version,
                        parent |-> IF hasParent THEN parent
                                   ELSE w[id].parent]]
         IN  Response(200, w2, <<>>, PageView(w2, id), w2[id].body)

\* DELETE /content/{id}: the page goes to the trash, its children move up
\* to its parent.
RemoteDelete(w, id) ==
    IF ~Live(w, id) THEN Failure(404, w)
    ELSE Response(204,
                  [p \in PageIds |->
                      IF p = id THEN [FreePage EXCEPT !.state = "gone"]
                      ELSE IF w[p].parent = id
                           THEN [w[p] EXCEPT !.parent = w[id].parent]
                           ELSE w[p]],
                  <<>>, None, <<>>)

\* ------------------------------------------------------------------------
\* Remote content gateway (ConfluenceClient._request)
\* ------------------------------------------------------------------------
Req(method, kind, id, title, version, body, parent) ==
    [method |-> method, kind |-> kind, id |-> id, title |-> title,
     version |-> version, body |-> body, parent |-> parent, status |-> 0]

ChildrenReq(id) == Req("GET", "children", id, <<>>, 0, <<>>, NoPage)
PageReq(id) == Req("GET", "page", id, <<>>, 0, <<>>, NoPage)
PostReq(title, parent, body) ==
    Req("POST", "create", NoPage, title, 0, body, parent)
PutBodyReq(id, title, version, body) ==
    Req("PUT", "body", id, title, version, body, NoPage)

\* What the remote answers to a request
Remote(w, req) ==
    CASE req.kind = "children" -> RemoteChildren(w, req.id)
      [] req.kind = "search" -> RemoteSearch(w, req.title)
      [] req.kind = "page" -> RemoteGet(w, req.id)
      [] req.kind = "create" -> RemotePost(w, req.title, req.parent, req.body)
      [] req.kind = "body" ->
            RemotePut(w, req.id, req.title, req.version, TRUE, req.body,
                      FALSE, NoPage)
      [] req.kind = "parent" ->
            RemotePut(w, req.id, req.title, req.version, FALSE, <<>>,
                      TRUE, req.parent)
      [] req.kind = "delete" -> RemoteDelete(w, req.id)

\* The context of a running operation: the wiki, the calls issued so far
\* and the call (by position) that the remote answers with an error status
\* A fault makes the remote answer the call at position `at` with `status`:
\* a status of the 2xx class replaces the status of a successful answer (and
\* `bare` leaves the version out of its JSON), any other status is an error
\* answer with body `text` and no effect on the wiki.
NoFault == [at |-> 0, status |-> 0, text |-> <<>>, bare |-> FALSE]
Ctx(w, fault) == [w |-> w, calls |-> <<>>, fault |-> fault]

\* Results of client functions: the context afterwards, 200 or the status
\* of the abort, and the returned value.
Ret(ctx, val) == [ctx |-> ctx, status |-> 200, val |-> val]
Abort(ctx, status) == [ctx |-> ctx, status |-> status, val |-> <<>>]

\* Sequencing: K runs on the result r unless r is an abort
Bind(r, K(_)) == IF r.status # 200 THEN r ELSE K(r)

\* requests.request: one round trip; the call is recorded with its status.
Send(ctx, req) ==
    LET resp ==
            IF ctx.fault.at # Len(ctx.calls) + 1 THEN Remote(ctx.w, req)
            ELSE IF ctx.fault.status \notin 200..299
            THEN Response(ctx.fault.status, ctx.w, <<>>, None, ctx.fault.text)
            ELSE IF Remote(ctx.w, req).status \notin 200..299
            THEN Remote(ctx.w, req)
            ELSE [Remote(ctx.w, req) EXCEPT
                     !.status = ctx.fault.status,
                     !.data.page.version = IF ctx.fault.bare THEN 0 ELSE @]
    IN  [ctx |-> [ctx EXCEPT
                     !.w = resp.w,
                     !.calls = Append(@, [req EXCEPT
                                             !.status = resp.status])],
         status |-> resp.status, val |-> resp.data]

\* Mutant: the status of the response is not looked at
Checked_NoAbort(r) == [r EXCEPT !.status = 200]

\* if response.status_code != 200: abort(response.status_code, response.text)
Checked(r) ==
    IF r.status = 200 THEN [r EXCEPT !.status = 200]
    ELSE [r EXCEPT !.val = r.val.body]

\* _request: abort(status, text) unless the status is 200
_request(ctx, req) == Checked(Send(ctx, req))

\* ------------------------------------------------------------------------
\* Path resolver
\* ------------------------------------------------------------------------
\* Mutant: any page that has an ancestor counts as a descendant of the root
_is_descendant_of_root_AnyAncestor(page) ==
    page.id = root_page_id \/ page.ancestors # <<>>

_is_descendant_of_root(page) ==
    \/ page.id = root_page_id
    \/ \E i \in 1..Len(page.ancestors) : page.ancestors[i].id = root_page_id

_search_pages_by_title(ctx, title) ==
    Bind(_request(ctx, Req("GET", "search", NoPage, title, 0, <<>>, NoPage)),
         LAMBDA r : Ret(r.ctx, r.val.results))

\* Mutant: the last result in scope wins
FirstDescendant_Last(results) ==
    IF \E i \in 1..Len(results) : _is_descendant_of_root(results[i])
    THEN results[CHOOSE i \in 1..Len(results) :
                    /\ _is_descendant_of_root(results[i])
                    /\ \A j \in (i + 1)..Len(results) :
                           ~_is_descendant_of_root(results[j])]
    ELSE None

\* Mutant: the first search result is taken without the scope check
FirstDescendant_NoScope(results) ==
    IF results # <<>> THEN results[1] ELSE None

\* for page in results: if self._is_descendant_of_root(page): return page
FirstDescendant(results) ==
    IF \E i \in 1..Len(results) : _is_descendant_of_root(results[i])
    THEN results[CHOOSE i \in 1..Len(results) :
                    /\ _is_descendant_of_root(results[i])
                    /\ \A j \in 1..(i - 1) : ~_is_descendant_of_root(results[j])]
    ELSE None

_search_page_by_title(ctx, title, descendants_only) ==
    Bind(_search_pages_by_title(ctx, title),
         LAMBDA r : IF r.val = <<>> THEN Ret(r.ctx, None)
                    ELSE IF descendants_only
                    THEN Ret(r.ctx, FirstDescendant(r.val))
                    ELSE Ret(r.ctx, r.val[1]))

\* Mutant: the search is not restricted to descendants of the root
_ensure_page_by_title_AnyPage(ctx, title) ==
    Bind(_search_page_by_title(ctx, title, FALSE),
         LAMBDA r : IF IsNone(r.val) THEN Abort(r.ctx, 404) ELSE r)

_ensure_page_by_title(ctx, title) ==
    Bind(_search_page_by_title(ctx, title, TRUE),
         LAMBDA r : IF IsNone(r.val) THEN Abort(r.ctx, 404) ELSE r)

_fetch_children(ctx, page_id) ==
    Bind(_request(ctx, ChildrenReq(page_id)),
         LAMBDA r : Ret(r.ctx, r.val.results))

_get_page(ctx, page_id) ==
    Bind(_request(ctx, PageReq(page_id)), LAMBDA r : Ret(r.ctx, r.val.page))

\* for page in results: if page["title"] == title: return page
get_page_by_title(ctx, title, parent_id) ==
    Bind(_request(ctx, ChildrenReq(parent_id)),
         LAMBDA r :
             Ret(r.ctx,
                 IF \E i \in 1..Len(r.val.results) :
                        r.val.results[i].title = title
                 THEN r.val.results[
                          CHOOSE i \in 1..Len(r.val.results) :
                              /\ r.val.results[i].title = title
                              /\ \A j \in 1..(i - 1) :
                                     r.val.results[j].title # title]
                 ELSE None))

\* the loop of get_page_by_path over the remaining parts
RECURSIVE WalkPath(_, _, _, _)
WalkPath(ctx, parts, current_parent_id, page) ==
    IF parts = <<>> THEN Ret(ctx, page)
    ELSE Bind(get_page_by_title(ctx, Head(parts), current_parent_id),
              LAMBDA r : IF IsNone(r.val) THEN r
                         ELSE WalkPath(r.ctx, Tail(parts), r.val.id, r.val))

get_page_by_path(ctx, path) ==
    IF Strip(path) = <<>> THEN Ret(ctx, None)
    ELSE IF Len(Split(Strip(path))) = 1
    THEN Bind(_search_pages_by_title(ctx, Split(Strip(path))[1]),
              LAMBDA r : Ret(r.ctx, FirstDescendant(r.val)))
    ELSE WalkPath(ctx, Split(Strip(path)), root_page_id, None)

get_page_body(ctx, page_id) ==
    Bind(_request(ctx, PageReq(page_id)), LAMBDA r : Ret(r.ctx, r.val.body))

\* ------------------------------------------------------------------------
\* Hierarchy assembler
\* ------------------------------------------------------------------------
TitlesOf(ancestors) == [i \in 1..Len(ancestors) |-> ancestors[i].title]

\* f"{prefix}/{title}" if prefix else title
PathUnder(prefix, title) ==
    IF prefix # <<>> THEN prefix \o <<Slash>> \o title ELSE title

RECURSIVE _list_pages_recursive(_, _, _)
RECURSIVE ListLoop(_, _, _, _)
\* Mutant: the paths below a page are emitted before the page's own path
ListLoop_PostOrder(ctx, results, prefix, paths) ==
    IF results = <<>> THEN Ret(ctx, paths)
    ELSE Bind(_list_pages_recursive(ctx, Head(results).id,
                                    PathUnder(prefix, Head(results).title)),
              LAMBDA sub :
                  ListLoop(sub.ctx, Tail(results), prefix,
                           paths \o sub.val
                                 \o <<PathUnder(prefix, Head(results).title)>>))

\* the for loop of _list_pages_recursive over the listed children
ListLoop(ctx, results, prefix, paths) ==
    IF results = <<>> THEN Ret(ctx, paths)
    ELSE Bind(_list_pages_recursive(ctx, Head(results).id,
                                    PathUnder(prefix, Head(results).title)),
              LAMBDA sub :
                  ListLoop(sub.ctx, Tail(results), prefix,
                           paths \o <<PathUnder(prefix, Head(results).title)>>
                                 \o sub.val))

_list_pages_recursive(ctx, parent_id, prefix) ==
    Bind(_request(ctx, ChildrenReq(parent_id)),
         LAMBDA r : ListLoop(r.ctx, r.val.results, prefix, <<>>))

list_pages(ctx) == _list_pages_recursive(ctx, root_page_id, <<>>)

get_page_children(ctx, page_title) ==
    Bind(_ensure_page_by_title(ctx, page_title),
         LAMBDA e :
             Bind(_fetch_children(e.ctx, e.val.id),
                  LAMBDA c :
                      Ret(c.ctx,
                          [i \in 1..Len(c.val) |->
                              [title |-> c.val[i].title,
                               path |-> TitlesOf(e.val.ancestors)
                                            \o <<e.val.title>>
                                            \o <<c.val[i].title>>]])))

get_page_parent(ctx, page_title) ==
    Bind(_ensure_page_by_title(ctx, page_title),
         LAMBDA e :
             IF e.val.ancestors = <<>> THEN Ret(e.ctx, [title |-> <<>>, path |-> <<>>,
                                                   none |-> TRUE])
             ELSE Ret(e.ctx,
                      [title |-> e.val.ancestors[Len(e.val.ancestors)].title,
                       path |-> TitlesOf(e.val.ancestors) \o <<e.val.title>>,
                       none |-> FALSE]))

RECURSIVE _build_tree_node(_, _, _, _, _)
RECURSIVE TreeLoop(_, _, _, _, _)
\* the list comprehension of _build_tree_node over the listed children
TreeLoop(ctx, children, depth, path, nodes) ==
    IF children = <<>> THEN Ret(ctx, nodes)
    ELSE Bind(_build_tree_node(ctx, Head(children).id, Head(children).title,
                               depth - 1, path \o <<Head(children).title>>),
              LAMBDA sub : TreeLoop(sub.ctx, Tail(children), depth, path,
                                    Append(nodes, sub.val)))

\* Mutant: the recursion stops one level too late
_build_tree_node_TooDeep(ctx, page_id, title, depth, path) ==
    IF depth < 0
    THEN Ret(ctx, [title |-> title, path |-> path, children |-> <<>>])
    ELSE Bind(_fetch_children(ctx, page_id),
              LAMBDA c :
                  Bind(TreeLoop(c.ctx, c.val, depth, path, <<>>),
                       LAMBDA t : Ret(t.ctx, [title |-> title, path |-> path,
                                              children |-> t.val])))

_build_tree_node(ctx, page_id, title, depth, path) ==
    IF depth <= 0
    THEN Ret(ctx, [title |-> title, path |-> path, children |-> <<>>])
    ELSE Bind(_fetch_children(ctx, page_id),
              LAMBDA c :
                  Bind(TreeLoop(c.ctx, c.val, depth, path, <<>>),
                       LAMBDA t : Ret(t.ctx, [title |-> title, path |-> path,
                                              children |-> t.val])))

\* Mutant: a negative depth expands as many levels as its absolute value
get_page_tree_Abs(ctx, start_title, depth) ==
    Bind(IF start_title # <<>>
         THEN _ensure_page_by_title(ctx, start_title)
         ELSE _get_page(ctx, root_page_id),
         LAMBDA s :
             _build_tree_node(s.ctx, s.val.id, s.val.title,
                              IF depth < 0 THEN 0 - depth ELSE depth,
                              TitlesOf(s.val.ancestors) \o <<s.val.title>>))

get_page_tree(ctx, start_title, depth) ==
    Bind(IF start_title # <<>>
         THEN _ensure_page_by_title(ctx, start_title)
         ELSE _get_page(ctx, root_page_id),
         LAMBDA s :
             _build_tree_node(s.ctx, s.val.id, s.val.title, depth,
                              TitlesOf(s.val.ancestors) \o <<s.val.title>>))

\* ------------------------------------------------------------------------
\* Mutation engine
\* ------------------------------------------------------------------------
\* Mutant: the version that was read is returned, not the one written
update_page_StaleVersion(ctx, page, new_body) ==
    Bind(_request(ctx, PageReq(page.id)),
         LAMBDA g :
             Bind(_request(g.ctx, PutBodyReq(page.id, page.title,
                                             g.val.page.version + 1, new_body)),
                  LAMBDA u : Ret(u.ctx, [version |-> g.val.page.version])))

update_page(ctx, page, new_body) ==
    Bind(_request(ctx, PageReq(page.id)),
         LAMBDA g :
             Bind(_request(g.ctx, PutBodyReq(page.id, page.title,
                                             g.val.page.version + 1, new_body)),
                  LAMBDA u : Ret(u.ctx, [version |-> g.val.page.version + 1])))

\* Mutant: the new title is written before the body is read
rename_page_WriteFirst(ctx, page, new_title) ==
    Bind(_request(ctx, PageReq(page.id)),
         LAMBDA g :
             Bind(_request(g.ctx,
                           PutBodyReq(page.id, new_title,
                                      g.val.page.version + 1, <<>>)),
                  LAMBDA u :
                      Bind(get_page_body(u.ctx, page.id),
                           LAMBDA b :
                               Ret(b.ctx, [old_title |-> page.title,
                                           new_title |-> new_title,
                                           version |-> g.val.page.version + 1]))))

rename_page(ctx, page, new_title) ==
    Bind(_request(ctx, PageReq(page.id)),
         LAMBDA g :
             Bind(get_page_body(g.ctx, page.id),
                  LAMBDA b :
                      Bind(_request(b.ctx,
                                    PutBodyReq(page.id, new_title,
                                               g.val.page.version + 1, b.val)),
                           LAMBDA u :
                               Ret(u.ctx, [old_title |-> page.title,
                                           new_title |-> new_title,
                                           version |-> g.val.page.version + 1]))))

\* Mutant: the result is returned without the DELETE call
delete_page_NoCall(ctx, page) == Ret(ctx, [deleted_title |-> page.title])

delete_page(ctx, page) ==
    LET r == Send(ctx, Req("DELETE", "delete", page.id, <<>>, 0, <<>>, NoPage))
    IN  IF r.status \notin {200, 202, 204}
        THEN [Abort(r.ctx, r.status) EXCEPT !.val = r.val.body]
        ELSE Ret(r.ctx, [deleted_title |-> page.title])

\* Mutant: a POST that failed is sent a second time
CreateSegment_Retry(ctx, title, parent_id) ==
    IF _request(ctx, PostReq(title, parent_id, <<>>)).status = 200
    THEN _request(ctx, PostReq(title, parent_id, <<>>))
    ELSE _request(_request(ctx, PostReq(title, parent_id, <<>>)).ctx,
                  PostReq(title, parent_id, <<>>))

\* Mutant: a missing segment is created with its title as its body
CreateSegment_TitleAsBody(ctx, title, parent_id) ==
    _request(ctx, PostReq(title, parent_id, title))

\* Mutant: every missing segment is created directly under the root
CreateSegment_UnderRoot(ctx, title, parent_id) ==
    _request(ctx, PostReq(title, root_page_id, <<>>))

\* the POST of resolve_or_create_path for a missing segment
CreateSegment(ctx, title, parent_id) ==
    _request(ctx, PostReq(title, parent_id, <<>>))

\* the loop of resolve_or_create_path over the remaining parts
RECURSIVE ResolveLoop(_, _, _)
ResolveLoop(ctx, parts, current_parent_id) ==
    IF parts = <<>> THEN Ret(ctx, current_parent_id)
    ELSE Bind(get_page_by_title(ctx, Head(parts), current_parent_id),
              LAMBDA e :
                  IF ~IsNone(e.val)
                  THEN ResolveLoop(e.ctx, Tail(parts), e.val.id)
                  ELSE Bind(CreateSegment(e.ctx, Head(parts), current_parent_id),
                            LAMBDA c : ResolveLoop(c.ctx, Tail(parts),
                                                   c.val.page.id)))

resolve_or_create_path(ctx, path) ==
    ResolveLoop(ctx, IF path # <<>> THEN Split(Strip(path)) ELSE <<>>,
                root_page_id)

\* Mutant: the leaf is created without looking for an existing page
UpsertLeaf_AlwaysCreate(ctx, parent_id, page_title, body) ==
    Bind(_request(ctx, PostReq(page_title, parent_id, body)),
         LAMBDA c : Ret(c.ctx, [id |-> c.val.page.id,
                                version |-> c.val.page.version]))

\* create_or_update_page once the parent is known
UpsertLeaf(ctx, parent_id, page_title, body) ==
    Bind(get_page_by_title(ctx, page_title, parent_id),
         LAMBDA e :
             IF ~IsNone(e.val)
             THEN Bind(update_page(e.ctx, e.val, body),
                       LAMBDA u : Ret(u.ctx, [id |-> e.val.id,
                                              version |-> u.val.version]))
             ELSE Bind(_request(e.ctx, PostReq(page_title, parent_id, body)),
                       LAMBDA c : Ret(c.ctx, [id |-> c.val.page.id,
                                              version |-> c.val.page.version])))

create_or_update_page(ctx, path, body) ==
    LET parts == Split(Strip(path))
        parent_path == Join(SubSeq(parts, 1, Len(parts) - 1))
    IN  Bind(IF parent_path # <<>> THEN resolve_or_create_path(ctx, parent_path)
             ELSE Ret(ctx, root_page_id),
             LAMBDA p : UpsertLeaf(p.ctx, p.val, parts[Len(parts)], body))

\* Mutant: a page without a parent title is created below the space home
create_page_UnderSpaceHome(ctx, title, body, parent_title) ==
    Bind(IF parent_title # <<>>
         THEN _ensure_page_by_title(ctx, parent_title)
         ELSE Ret(ctx, [None EXCEPT !.id = SpaceHome]),
         LAMBDA a :
             Bind(_request(a.ctx, PostReq(title, a.val.id, body)),
                  LAMBDA c : Ret(c.ctx, [id |-> c.val.page.id, title |-> title,
                                         version |-> IF c.val.page.version = 0
                                                     THEN 1
                                                     ELSE c.val.page.version])))

\* Mutant: the version is taken from the response without a default
create_page_NoDefault(ctx, title, body, parent_title) ==
    Bind(IF parent_title # <<>>
         THEN _ensure_page_by_title(ctx, parent_title)
         ELSE Ret(ctx, [None EXCEPT !.id = root_page_id]),
         LAMBDA a :
             Bind(_request(a.ctx, PostReq(title, a.val.id, body)),
                  LAMBDA c : Ret(c.ctx, [id |-> c.val.page.id, title |-> title,
                                         version |-> c.val.page.version])))

create_page(ctx, title, body, parent_title) ==
    Bind(IF parent_title # <<>>
         THEN _ensure_page_by_title(ctx, parent_title)
         ELSE Ret(ctx, [None EXCEPT !.id = root_page_id]),
         LAMBDA a :
             Bind(_request(a.ctx, PostReq(title, a.val.id, body)),
                  LAMBDA c : Ret(c.ctx, [id |-> c.val.page.id, title |-> title,
                                         version |-> IF c.val.page.version = 0
                                                     THEN 1
                                                     ELSE c.val.page.version])))

\* Mutant: only the new parent itself is compared, not its ancestors
InChain_ParentOnly(page_id, new_parent_id, new_parent_ancestors) ==
    page_id = new_parent_id

\* Mutant: the new parent itself is not compared, only its ancestors
InChain_AncestorsOnly(page_id, new_parent_id, new_parent_ancestors) ==
    \E i \in 1..Len(new_parent_ancestors) :
        new_parent_ancestors[i].id = page_id

\* page_id in new_parent_ancestors + [new_parent_id]
InChain(page_id, new_parent_id, new_parent_ancestors) ==
    \/ page_id = new_parent_id
    \/ \E i \in 1..Len(new_parent_ancestors) :
           new_parent_ancestors[i].id = page_id

\* Mutant: the PUT carries the title of the new parent
MoveChecked_ParentTitle(ctx, page_id, detailed_page, new_parent_id, new_parent_details) ==
    IF ~_is_descendant_of_root(new_parent_details) THEN Abort(ctx, 404)
    ELSE IF InChain(page_id, new_parent_id, new_parent_details.ancestors)
    THEN Abort(ctx, 422)
    ELSE Bind(_request(ctx, Req("PUT", "parent", page_id,
                                new_parent_details.title,
                                detailed_page.version + 1, <<>>,
                                new_parent_id)),
              LAMBDA u :
                  Ret(u.ctx,
                      [title |-> detailed_page.title,
                       old_parent_title |->
                           IF detailed_page.ancestors # <<>>
                           THEN detailed_page.ancestors[
                                    Len(detailed_page.ancestors)].title
                           ELSE <<>>,
                       old_parent_none |-> detailed_page.ancestors = <<>>,
                       new_parent_title |-> new_parent_details.title]))

\* move_page after both pages and their details were fetched
MoveChecked(ctx, page_id, detailed_page, new_parent_id, new_parent_details) ==
    IF ~_is_descendant_of_root(new_parent_details) THEN Abort(ctx, 404)
    ELSE IF InChain(page_id, new_parent_id, new_parent_details.ancestors)
    THEN Abort(ctx, 422)
    ELSE Bind(_request(ctx, Req("PUT", "parent", page_id,
                                detailed_page.title,
                                detailed_page.version + 1, <<>>,
                                new_parent_id)),
              LAMBDA u :
                  Ret(u.ctx,
                      [title |-> detailed_page.title,
                       old_parent_title |->
                           IF detailed_page.ancestors # <<>>
                           THEN detailed_page.ancestors[
                                    Len(detailed_page.ancestors)].title
                           ELSE <<>>,
                       old_parent_none |-> detailed_page.ancestors = <<>>,
                       new_parent_title |-> new_parent_details.title]))

move_page(ctx, page_title, new_parent_title) ==
    Bind(_ensure_page_by_title(ctx, page_title),
         LAMBDA e :
    Bind(_get_page(e.ctx, e.val.id),
         LAMBDA d :
    IF ~_is_descendant_of_root(d.val) THEN Abort(d.ctx, 404) ELSE
    Bind(_ensure_page_by_title(d.ctx, new_parent_title),
         LAMBDA n :
    Bind(_get_page(n.ctx, n.val.id),
         LAMBDA nd : MoveChecked(nd.ctx, e.val.id, d.val, n.val.id, nd.val)))))

\* ------------------------------------------------------------------------
\* Boundary layer: authentication and input validation (conflagent.py)
\* ------------------------------------------------------------------------
\* An Authorization header is a sequence of words; the shared secret is one
\* word.
Bearer == "Bearer "
GoodAuth == <<Bearer, "s3cret">>

RECURSIVE StripSpaces(_)
StripSpaces(s) ==
    IF s # <<>> /\ Head(s) = " " THEN StripSpaces(Tail(s))
    ELSE IF s # <<>> /\ s[Len(s)] = " "
    THEN StripSpaces(SubSeq(s, 1, Len(s) - 1))
    ELSE s

\* auth_header.split("Bearer ")[-1]: what follows the last "Bearer "
RECURSIVE AfterLastBearer(_)
AfterLastBearer(s) ==
    IF \E i \in 1..Len(s) : s[i] = Bearer
    THEN AfterLastBearer(SubSeq(s, 1 + (CHOOSE k \in 1..Len(s) : s[k] = Bearer),
                                Len(s)))
    ELSE s

\* TRUE when check_auth returns, FALSE when it aborts with 403
check_auth(auth_header) ==
    /\ auth_header # <<>> /\ Head(auth_header) = Bearer
    /\ StripSpaces(AfterLastBearer(auth_header)) = <<"s3cret">>

\* if not page: abort(404, description="Page not found")
Found(p, K(_)) ==
    Bind(p, LAMBDA r : IF IsNone(r.val) THEN Abort(r.ctx, 404) ELSE K(r))

api_list_subpages(ctx, auth) ==
    IF ~check_auth(auth) THEN Abort(ctx, 403) ELSE list_pages(ctx)

api_read_page(ctx, auth, title) ==
    IF ~check_auth(auth) THEN Abort(ctx, 403)
    ELSE Found(get_page_by_path(ctx, title),
               LAMBDA p :
                   Bind(get_page_body(p.ctx, p.val.id),
                        LAMBDA b : Ret(b.ctx, [title |-> title,
                                               body |-> b.val])))

api_list_children(ctx, auth, title) ==
    IF ~check_auth(auth) THEN Abort(ctx, 403)
    ELSE get_page_children(ctx, title)

api_get_parent(ctx, auth, title) ==
    IF ~check_auth(auth) THEN Abort(ctx, 403)
    ELSE get_page_parent(ctx, title)

api_create_page(ctx, auth, title, body, parent_title) ==
    IF ~check_auth(auth) THEN Abort(ctx, 403)
    ELSE IF title = <<>> THEN Abort(ctx, 400)
    ELSE create_page(ctx, title, body, parent_title)

api_move_page(ctx, auth, title, new_parent_title) ==
    IF ~check_auth(auth) THEN Abort(ctx, 403)
    ELSE IF new_parent_title = <<>> THEN Abort(ctx, 400)
    ELSE move_page(ctx, title, new_parent_title)

api_update_page(ctx, auth, title, new_body) ==
    IF ~check_auth(auth) THEN Abort(ctx, 403)
    ELSE Found(get_page_by_path(ctx, title),
               LAMBDA p :
                   Bind(update_page(p.ctx, p.val, new_body),
                        LAMBDA u : Ret(u.ctx, [version |-> u.val.version])))

api_delete_page(ctx, auth, title) ==
    IF ~check_auth(auth) THEN Abort(ctx, 403)
    ELSE Found(get_page_by_path(ctx, title),
               LAMBDA p :
                   Bind(delete_page(p.ctx, p.val),
                        LAMBDA d : Ret(d.ctx,
                                       [deletedTitle |-> d.val.deleted_title])))

api_rename_page(ctx, auth, old_title, new_title) ==
    IF ~check_auth(auth) THEN Abort(ctx, 403)
    ELSE IF old_title = <<>> \/ new_title = <<>> THEN Abort(ctx, 400)
    ELSE Found(get_page_by_path(ctx, old_title),
               LAMBDA p :
                   Bind(rename_page(p.ctx, p.val, new_title),
                        LAMBDA r : Ret(r.ctx, [oldTitle |-> r.val.old_title,
                                               newTitle |-> r.val.new_title,
                                               version |-> r.val.version])))

\* A raw query parameter: absent, or its text (a sequence of characters)
Absent == [present |-> FALSE, text |-> <<>>]
Text(t) == [present |-> TRUE, text |-> t]

RECURSIVE DigitsVal(_)
DigitsVal(t) ==
    IF t = <<>> THEN 0
    ELSE 10 * DigitsVal(SubSeq(t, 1, Len(t) - 1)) 
         + (CHOOSE i \in 1..10 :
                <<"0", "1", "2", "3", "4", "5", "6", "7", "8", "9">>[i]
                    = t[Len(t)]) - 1

\* int(text): an optional sign followed by at least one digit
Unsigned(t) == IF t # <<>> /\ Head(t) \in {"-", "+"} THEN Tail(t) ELSE t
IsInt(t) ==
    /\ Unsigned(t) # <<>>
    /\ \A i \in 1..Len(Unsigned(t)) :
           Unsigned(t)[i] \in {"0", "1", "2", "3", "4", "5", "6", "7", "8", "9"}
IntOf(t) == IF Head(t) = "-" THEN 0 - DigitsVal(Unsigned(t))
            ELSE DigitsVal(Unsigned(t))

\* Mutant: a negative depth is let through
_parse_depth_AllowNegative(raw_depth) ==
    IF ~raw_depth.present THEN [ok |-> TRUE, depth |-> 2]
    ELSE IF ~IsInt(raw_depth.text) THEN [ok |-> FALSE, depth |-> 0]
    ELSE [ok |-> TRUE, depth |-> IntOf(raw_depth.text)]

\* _parse_depth: [ok, depth]; ok = FALSE is abort(400)
_parse_depth(raw_depth) ==
    IF ~raw_depth.present THEN [ok |-> TRUE, depth |-> 2]
    ELSE IF ~IsInt(raw_depth.text) THEN [ok |-> FALSE, depth |-> 0]
    ELSE IF IntOf(raw_depth.text) < 0 THEN [ok |-> FALSE, depth |-> 0]
    ELSE [ok |-> TRUE, depth |-> IntOf(raw_depth.text)]

api_get_page_tree(ctx, auth, raw_depth, start_title) ==
    IF ~check_auth(auth) THEN Abort(ctx, 403)
    ELSE IF ~_parse_depth(raw_depth).ok THEN Abort(ctx, 400)
    ELSE get_page_tree(ctx, start_title, _parse_depth(raw_depth).depth)

\* ------------------------------------------------------------------------
\* Body converter (conflagent_core/content.py)
\* ------------------------------------------------------------------------
\* A body is a sequence of characters and HTML tags; "<b>" and "</b>" stand
\* for the tags _HTML_TAG_RE matches and for their closing tags.
_looks_like_html(content) ==
    /\ StripSpaces(content) # <<>>
    /\ \E i \in 1..Len(content) : content[i] = "<b>"

\* markdown2.markdown of a one-paragraph text: the paragraph in <p> tags
\* and a newline
to_confluence_storage(content) ==
    IF StripSpaces(content) = <<>> THEN <<>>
    ELSE IF _looks_like_html(content) THEN content
    ELSE <<"<p>">> \o content \o <<"</p>", "\n">>

\* ------------------------------------------------------------------------
\* Response envelope (conflagent_core/response.py, error handlers)
\* ------------------------------------------------------------------------
\* The statuses flask.abort has an HTTPException for (werkzeug's default
\* exceptions); abort with any other status raises LookupError.
Aborter ==
    {400, 401, 403, 404, 405, 406, 408, 409, 410, 411, 412, 413, 414, 415,
     416, 417, 418, 421, 422, 423, 424, 428, 429, 431, 451,
     500, 501, 502, 503, 504, 505}

\* Mutant: the table has no entry for 401
_map_error_code_No401(status_code) ==
    CASE status_code = 400 -> "INVALID_INPUT"
      [] status_code = 403 -> "UNAUTHORIZED"
      [] status_code = 404 -> "NOT_FOUND"
      [] status_code = 409 -> "VERSION_CONFLICT"
      [] status_code = 422 -> "INVALID_OPERATION"
      [] OTHER -> "INTERNAL_ERROR"

\* _ERROR_CODE_BY_STATUS.get(status_code, "INTERNAL_ERROR")
_map_error_code(status_code) ==
    CASE status_code = 400 -> "INVALID_INPUT"
      [] status_code \in {401, 403} -> "UNAUTHORIZED"
      [] status_code = 404 -> "NOT_FOUND"
      [] status_code = 409 -> "VERSION_CONFLICT"
      [] status_code = 422 -> "INVALID_OPERATION"
      [] OTHER -> "INTERNAL_ERROR"


\* ResponseEnvelope.build(False, code, message, None), without the timestamp
error_response(code, message, status_code) ==
    [status |-> status_code, success |-> FALSE, code |-> code,
     message |-> message, data |-> <<"null">>]

\* The HTTP response to the outcome r of a handler: _success when the
\* handler returned, _handle_http_exception when it aborted with a status
\* abort knows (the message is the description given to abort),
\* _handle_unexpected_exception otherwise.
Reply(r) ==
    IF r.status = 200
    THEN [status |-> 200, success |-> TRUE, code |-> "OK",
          message |-> <<"done">>, data |-> r.val]
    ELSE IF r.status \in Aborter
    THEN error_response(_map_error_code(r.status), r.val, r.status)
    ELSE error_response("INTERNAL_ERROR", <<"An unexpected error occurred.">>,
                        500)

\* ------------------------------------------------------------------------
\* State
\* ------------------------------------------------------------------------
VARIABLES
    wiki,   \* the remote wiki: page id -> [state, title, body, version, parent]
    op,     \* the last completed operation: name, arguments, outcome, calls
    nops,   \* number of requests the service has accepted
    procs,  \* the requests in progress, one per client: position and locals
    CONFIG_CACHE,   \* the configuration cache: endpoint name -> config
    files,  \* the properties file of each endpoint name: the keys it sets
    loads   \* the calls of load_config in progress, one per client

vars == <<wiki, op, nops, procs, CONFIG_CACHE, files, loads>>

\* Two callers; the service handles their requests in parallel
Clients == {"c1", "c2"}

\* The locals of a request handler: the resolved page, the version and body
\* it read, the pages move_page fetched, the path segments still to walk,
\* the calls it issued, its outcome
Idle ==
    [pc |-> "idle", kind |-> "none", a1 |-> <<>>, a2 |-> <<>>,
     page |-> None, version |-> 0, body |-> <<>>, detail |-> None,
     parent |-> None, pdetail |-> None, parts |-> <<>>, status |-> 0,
     calls |-> <<>>]


\* ------------------------------------------------------------------------
\* Endpoint configuration (config.py)
\* ------------------------------------------------------------------------
required_keys ==
    {"email", "api_token", "base_url", "space_key", "root_page_id",
     "gpt_shared_secret"}

\* The process starts with an empty cache; no properties file is written
\* yet and no request is loading a configuration.
InitConfig ==
    /\ CONFIG_CACHE = [n \in {} |-> [k \in {} |-> "0"]]
    /\ files = [n \in {"a", "b"} |-> [exists |-> FALSE,
                                       config |-> [k \in {} |-> "0"]]]
    /\ loads = [c \in Clients |->
                   [pc |-> "idle", name |-> "a", status |-> 0,
                    config |-> [k \in {} |-> "0"]]]

\* with_config calls load_config(endpoint_name) in the thread of the request.
\* A cached name returns the cached dict; otherwise os.path.exists(path)
\* decides between abort(404) and opening the file.
LoadStart(c) ==
    \E n \in {"a", "b"} :
        /\ loads[c].pc \in {"idle", "done"}
        /\ loads' = [loads EXCEPT ![c] =
                        IF n \in DOMAIN CONFIG_CACHE
                        THEN [pc |-> "done", name |-> n, status |-> 200,
                              config |-> CONFIG_CACHE[n]]
                        ELSE IF ~files[n].exists
                        THEN [pc |-> "done", name |-> n, status |-> 404,
                              config |-> [k \in {} |-> "0"]]
                        ELSE [pc |-> "open", name |-> n, status |-> 0,
                              config |-> [k \in {} |-> "0"]]]
        /\ UNCHANGED <<wiki, op, nops, procs, CONFIG_CACHE, files>>

\* open(path) and the parse of its key = value lines, then the check of the
\* required keys: abort(500) when one is missing.  A file that was removed
\* since os.path.exists makes open raise, which the service answers with 500.
LoadRead(c) ==
    /\ loads[c].pc = "open"
    /\ loads' = [loads EXCEPT ![c] =
                    IF /\ files[loads[c].name].exists
                       /\ required_keys \subseteq
                              DOMAIN files[loads[c].name].config
                    THEN [@ EXCEPT !.pc = "store",
                                   !.config = files[loads[c].name].config]
                    ELSE [@ EXCEPT !.pc = "done", !.status = 500]]
    /\ UNCHANGED <<wiki, op, nops, procs, CONFIG_CACHE, files>>

\* CONFIG_CACHE[endpoint_name] = config; return config
LoadStore(c) ==
    /\ loads[c].pc = "store"
    /\ CONFIG_CACHE' =
           [n \in DOMAIN CONFIG_CACHE \cup {loads[c].name} |->
               IF n = loads[c].name THEN loads[c].config
               ELSE CONFIG_CACHE[n]]
    /\ loads' = [loads EXCEPT ![c] = [@ EXCEPT !.pc = "done", !.status = 200]]
    /\ UNCHANGED <<wiki, op, nops, procs, files>>

\* The operator writes, rewrites or removes the properties file of an
\* endpoint: with every required key, or without the shared secret.
EditFile ==
    \E n \in {"a", "b"} :
        \E f \in {[exists |-> FALSE, config |-> [k \in {} |-> "0"]]}
                  \cup {[exists |-> TRUE, config |-> [k \in required_keys |-> v]] :
                            v \in {"1", "2"}}
                  \cup {[exists |-> TRUE,
                         config |-> [k \in required_keys \ {"gpt_shared_secret"}
                                        |-> "1"]]} :
            /\ files[n] # f
            /\ files' = [files EXCEPT ![n] = f]
            /\ UNCHANGED <<wiki, op, nops, procs, CONFIG_CACHE, loads>>

NextConfig ==
    \/ EditFile
    \/ \E c \in Clients : LoadStart(c) \/ LoadRead(c) \/ LoadStore(c)

MkPage(title, body, version, parent) ==
    [state |-> "live", title |-> title, body |-> body, version |-> version,
     parent |-> parent]

\* The space home page with the configured root below it
BaseWiki ==
    [i \in PageIds |->
        IF i = SpaceHome THEN MkPage(<<"H">>, <<"x">>, 1, NoPage)
        ELSE IF i = root_page_id THEN MkPage(RootTitle, <<"x">>, 1, SpaceHome)
        ELSE FreePage]

NoOp == [name |-> "none", args |-> <<>>, status |-> 0, val |-> <<>>,
         calls |-> <<>>]

\* Complete an operation whose outcome is r, unless it needed more page ids
\* than the model has
Finish(name, args, r) ==
    /\ nops < MaxOps
    /\ \A i \in 1..Len(r.ctx.calls) : r.ctx.calls[i].status # 0
    /\ wiki' = r.ctx.w
    /\ op' = [name |-> name, args |-> args, status |-> r.status,
              val |-> r.val, calls |-> r.ctx.calls]
    /\ nops' = nops + 1
    /\ UNCHANGED <<procs, CONFIG_CACHE, files, loads>>

\* ------------------------------------------------------------------------
\* Initial states
\* ------------------------------------------------------------------------

\* Page 2 lies outside the root subtree (a sibling of the root) and is
\* titled A, page 3 is a child of the root, page 4 a child of the root or of
\* page 3.
Init ==
    /\ wiki \in
           {[BaseWiki EXCEPT ![2] = MkPage(TA, <<"x">>, 1, SpaceHome),
                             ![3] = MkPage(t3, <<"x">>, 1, root_page_id),
                             ![4] = MkPage(t4, <<"y">>, 2, p4)] :
               t3 \in {TA, TB}, t4 \in {TA, TB}, p4 \in {root_page_id, 3}}
    /\ op = NoOp
    /\ nops = 0
    /\ procs = [c \in Clients |-> Idle]
    /\ InitConfig

\* ------------------------------------------------------------------------
\* API operations, one action per handler
\* ------------------------------------------------------------------------
ABC == <<"A", "/", "B", "/", "C">>

ApiList ==
    Finish("list", <<>>, api_list_subpages(Ctx(wiki, NoFault), GoodAuth))

ApiRead ==
    \E path \in {TA, TAB} :
        Finish("read", <<path>>,
               api_read_page(Ctx(wiki, NoFault), GoodAuth, path))

ApiChildren ==
    \E title \in {TA, RootTitle, TAB} :
        Finish("children", <<title>>,
               api_list_children(Ctx(wiki, NoFault), GoodAuth, title))

ApiParent ==
    \E title \in {TA, TC, RootTitle, TAB} :
        Finish("parent", <<title>>,
               api_get_parent(Ctx(wiki, NoFault), GoodAuth, title))

ApiTree ==
    \E in \in {<<<<>>, Text(<<"0">>)>>, <<<<>>, Text(<<"1">>)>>,
               <<TA, Absent>>} :
        Finish("tree", in,
               api_get_page_tree(Ctx(wiki, NoFault), GoodAuth, in[2], in[1]))

ApiCreate ==
    \E title \in {TA, TC}, parent \in {<<>>, TA} :
        Finish("create", <<title, <<"x">>, parent>>,
               api_create_page(Ctx(wiki, NoFault), GoodAuth, title, <<"x">>,
                               parent))

ApiUpdate ==
    \E path \in {TA, RootTitle, TAB} :
        Finish("update", <<path, <<"z">>>>,
               api_update_page(Ctx(wiki, NoFault), GoodAuth, path, <<"z">>))

ApiRename ==
    \E old \in {TA, TB}, new \in {TA, TC} :
        Finish("rename", <<old, new>>,
               api_rename_page(Ctx(wiki, NoFault), GoodAuth, old, new))

ApiMove ==
    \E title \in {TA, TB, TAB}, parent \in {TA, TB, RootTitle} :
        Finish("move", <<title, parent>>,
               api_move_page(Ctx(wiki, NoFault), GoodAuth, title, parent))

ApiDelete ==
    \E path \in {TA, TB, RootTitle, TAB} :
        Finish("delete", <<path>>,
               api_delete_page(Ctx(wiki, NoFault), GoodAuth, path))

\* get_page_by_path and create_or_update_page are client methods
Resolve ==
    \E path \in {TA, TAB, ABC} :
        Finish("resolve", <<path>>, get_page_by_path(Ctx(wiki, NoFault), path))

Upsert ==
    \E path \in {TA, TC, TAB, ABC}, body \in {<<"x">>, <<"y">>} :
        Finish("upsert", <<path, body>>,
               create_or_update_page(Ctx(wiki, NoFault), path, body))

Next ==
    \/ ApiList
    \/ ApiRead
    \/ ApiChildren
    \/ ApiParent
    \/ ApiTree
    \/ ApiCreate
    \/ ApiUpdate
    \/ ApiRename
    \/ ApiMove
    \/ ApiDelete
    \/ Resolve
    \/ Upsert

Spec == Init /\ [][Next]_vars

\* ------------------------------------------------------------------------
\* Read operations over arbitrary hierarchies
\* ------------------------------------------------------------------------
NoCycle(w) ==
    \A p \in PageIds :
        Len(AncestorIds(w, p, Cardinality(PageIds))) < Cardinality(PageIds)

\* Pages 2, 3 and 4 anywhere in the space: below the space home (outside
\* the root subtree), below the root or below one another.
InitRead ==
    /\ wiki \in
           {w \in {[BaseWiki EXCEPT ![2] = MkPage(t2, <<"x">>, 1, p2),
                                    ![3] = MkPage(t3, <<"x">>, 1, p3),
                                    ![4] = MkPage(t4, <<"y">>, 2, p4)] :
                       t2 \in {TA, TB}, t3 \in {TA, TB},
                       t4 \in {TA, TB},
                       p2 \in SpaceHome..4, p3 \in SpaceHome..4, p4 \in SpaceHome..4} :
               NoCycle(w)}
    /\ op = NoOp
    /\ nops = 0
    /\ procs = [c \in Clients |-> Idle]
    /\ InitConfig

\* Complete a read operation whose outcome is r
Answer(name, args, r) ==
    /\ op' = [name |-> name, args |-> args, status |-> r.status,
              val |-> r.val, calls |-> r.ctx.calls]
    /\ wiki' = r.ctx.w
    /\ UNCHANGED <<nops, procs, CONFIG_CACHE, files, loads>>

\* The caller asks for the list of pages
ReadList == Answer("list", <<>>, list_pages(Ctx(wiki, NoFault)))

\* The caller resolves a path: one of its own, or one it was just listed
ReadResolve ==
    \E path \in {TA, TB, RootTitle, TAB, <<"B", "/", "A">>} \cup
                (IF op.name = "list" /\ op.status = 200 THEN {op.val[i] : i \in DOMAIN op.val} ELSE {}) :
        Answer("resolve", <<path>>, get_page_by_path(Ctx(wiki, NoFault), path))

NextRead ==
    \/ ReadList
    \/ ReadResolve

SpecRead == InitRead /\ [][NextRead]_vars

\* ------------------------------------------------------------------------
\* Concurrent mutations: each remote call of a handler is one step
\* ------------------------------------------------------------------------
\* Mutant: rename_page reads the body before it reads the version
RenameOrder_BodyFirst == <<"body", "version">>

\* rename_page reads the version, then the body, then writes
RenameOrder == <<"version", "body">>

\* Page 2 (outside the root subtree) and page 3 (child of the root) are
\* titled A; page 4, titled B, is a child of the root or of page 3.  The old
\* page, if it exists, is a child of the root and carries the root's title.
InitConc ==
    /\ wiki \in
           {[BaseWiki EXCEPT ![2] = MkPage(TA, <<"x">>, 1, SpaceHome),
                             ![3] = MkPage(TA, <<"x">>, 1, root_page_id),
                             ![4] = MkPage(TB, <<"y">>, 2, p4),
                             ![OldId] = old] :
               p4 \in {root_page_id, 3},
               old \in {FreePage, MkPage(RootTitle, <<"x">>, 1, root_page_id)}}
    /\ op = NoOp
    /\ nops = 0
    /\ procs = [c \in Clients |-> Idle]
    /\ InitConfig

\* The context in which client c issues its next call
CtxOf(c) == [w |-> wiki, calls |-> procs[c].calls, fault |-> NoFault]

\* A handler that starts: no call issued yet
Fresh(kind, a1, a2) == [Idle EXCEPT !.kind = kind, !.a1 = a1, !.a2 = a2]

\* abort(): the request ends with the status of r
Stopped(p, r) ==
    [p EXCEPT !.pc = "done", !.status = r.status, !.calls = r.ctx.calls]

\* The handler returns 200
Returned(p, r) ==
    [p EXCEPT !.pc = "done", !.status = 200, !.calls = r.ctx.calls]

\* One step of client c: the call's outcome r reaches the wiki, and the
\* handler stops on an abort or goes on as q
Step(c, r, q) ==
    /\ wiki' = r.ctx.w
    /\ procs' = [procs EXCEPT ![c] = IF r.status # 200 THEN Stopped(@, r) ELSE q]
    /\ UNCHANGED <<op, CONFIG_CACHE, files, loads>>

Accept(c) ==
    /\ procs[c].pc \in {"idle", "done"}
    /\ nops < MaxOps
    /\ nops' = nops + 1

Continue(c, kind, pc) ==
    /\ procs[c].kind = kind
    /\ procs[c].pc = pc
    /\ UNCHANGED nops

\* api_update_page and api_rename_page up to the resolution of the path
Resolved(p, r, pc) ==
    IF IsNone(r.val) THEN Stopped(p, Abort(r.ctx, 404))
    ELSE [p EXCEPT !.pc = pc, !.page = r.val, !.calls = r.ctx.calls]

UpdateStart(c) ==
    \E title \in {TA, TC} :
        /\ Accept(c)
        /\ Step(c, get_page_by_path(Ctx(wiki, NoFault), title),
                Resolved(Fresh("update", title, <<"z">>),
                         get_page_by_path(Ctx(wiki, NoFault), title),
                         "version"))

\* update_page: GET ?expand=version
UpdateVersion(c) ==
    LET r == _request(CtxOf(c), PageReq(procs[c].page.id))
    IN  /\ Continue(c, "update", "version")
        /\ Step(c, r, [procs[c] EXCEPT !.pc = "put",
                                       !.version = r.val.page.version + 1,
                                       !.calls = r.ctx.calls])

\* update_page: PUT of the title of the resolved page, the version and the
\* new body
UpdatePut(c) ==
    LET r == _request(CtxOf(c), PutBodyReq(procs[c].page.id,
                                           procs[c].page.title,
                                           procs[c].version, procs[c].a2))
    IN  /\ Continue(c, "update", "put")
        /\ Step(c, r, Returned(procs[c], r))

RenameStart(c) ==
    \E old \in {TA, TC}, new \in {TA, TC} :
        /\ old # new
        /\ Accept(c)
        /\ Step(c, get_page_by_path(Ctx(wiki, NoFault), old),
                Resolved(Fresh("rename", old, new),
                         get_page_by_path(Ctx(wiki, NoFault), old),
                         RenameOrder[1]))

\* rename_page: GET ?expand=version; after a read of rename_page comes its
\* other read, then the write
RenameVersion(c) ==
    LET r == _request(CtxOf(c), PageReq(procs[c].page.id))
    IN  /\ Continue(c, "rename", "version")
        /\ Step(c, r, [procs[c] EXCEPT
                          !.pc = IF RenameOrder[1] = "version"
                                 THEN RenameOrder[2] ELSE "put",
                          !.version = r.val.page.version + 1,
                          !.calls = r.ctx.calls])

\* rename_page: get_page_body
RenameBody(c) ==
    /\ Continue(c, "rename", "body")
    /\ Step(c, get_page_body(CtxOf(c), procs[c].page.id),
            [procs[c] EXCEPT
                !.pc = IF RenameOrder[1] = "body" THEN RenameOrder[2] ELSE "put",
                !.body = get_page_body(CtxOf(c), procs[c].page.id).val,
                !.calls = get_page_body(CtxOf(c), procs[c].page.id).ctx.calls])

\* rename_page: PUT of the new title, the version and the body that was read
RenamePut(c) ==
    /\ Continue(c, "rename", "put")
    /\ Step(c, _request(CtxOf(c),
                         PutBodyReq(procs[c].page.id, procs[c].a2,
                                    procs[c].version, procs[c].body)),
            Returned(procs[c],
                     _request(CtxOf(c),
                              PutBodyReq(procs[c].page.id, procs[c].a2,
                                         procs[c].version, procs[c].body))))

\* move_page: _ensure_page_by_title(page_title); the request names a title
\* and the title of the new parent
MoveStart(c, titles, parents) ==
    \E title \in titles, parent \in parents :
        /\ Accept(c)
        /\ Step(c, _ensure_page_by_title(Ctx(wiki, NoFault), title),
                Resolved(Fresh("move", title, parent),
                         _ensure_page_by_title(Ctx(wiki, NoFault), title),
                         "detail"))

\* Mutant: the fetched details are not checked against the root
Detailed_NoRecheck(p, r) ==
    [p EXCEPT !.pc = "parent", !.detail = r.val,
              !.version = r.val.version + 1, !.calls = r.ctx.calls]

Detailed(p, r) ==
    IF ~_is_descendant_of_root(r.val) THEN Stopped(p, Abort(r.ctx, 404))
    ELSE [p EXCEPT !.pc = "parent", !.detail = r.val,
                   !.version = r.val.version + 1, !.calls = r.ctx.calls]

\* move_page: _get_page(page_id, expand="ancestors,version")
MoveDetail(c) ==
    /\ Continue(c, "move", "detail")
    /\ Step(c, _get_page(CtxOf(c), procs[c].page.id),
            Detailed(procs[c], _get_page(CtxOf(c), procs[c].page.id)))

\* move_page: _ensure_page_by_title(new_parent_title)
MoveParent(c) ==
    /\ Continue(c, "move", "parent")
    /\ Step(c, _ensure_page_by_title(CtxOf(c), procs[c].a2),
            [procs[c] EXCEPT
                !.pc = "pdetail",
                !.parent = _ensure_page_by_title(CtxOf(c), procs[c].a2).val,
                !.calls = _ensure_page_by_title(CtxOf(c), procs[c].a2).ctx.calls])

\* move_page: _get_page(new_parent_id, expand="ancestors")
MoveParentDetail(c) ==
    /\ Continue(c, "move", "pdetail")
    /\ Step(c, _get_page(CtxOf(c), procs[c].parent.id),
            [procs[c] EXCEPT
                !.pc = "put",
                !.pdetail = _get_page(CtxOf(c), procs[c].parent.id).val,
                !.calls = _get_page(CtxOf(c), procs[c].parent.id).ctx.calls])

\* move_page: the checks on the new parent, then the PUT
MovePut(c) ==
    /\ Continue(c, "move", "put")
    /\ Step(c, MoveChecked(CtxOf(c), procs[c].page.id, procs[c].detail,
                            procs[c].parent.id, procs[c].pdetail),
            Returned(procs[c],
                     MoveChecked(CtxOf(c), procs[c].page.id, procs[c].detail,
                                 procs[c].parent.id, procs[c].pdetail)))

NextConc ==
    \E c \in Clients :
        \/ UpdateStart(c)
        \/ UpdateVersion(c)
        \/ UpdatePut(c)
        \/ RenameStart(c)
        \/ RenameVersion(c)
        \/ RenameBody(c)
        \/ RenamePut(c)
        \/ MoveStart(c, {TA, TB}, {TA, TB, RootTitle})
        \/ MoveDetail(c)
        \/ MoveParent(c)
        \/ MoveParentDetail(c)
        \/ MovePut(c)

SpecConc == InitConc /\ [][NextConc]_vars

\* ------------------------------------------------------------------------
\* Moves while another user of the wiki re-parents pages
\* ------------------------------------------------------------------------
\* Another user of the wiki moves a page of the root subtree to below the
\* space home; the page and its descendants are then out of scope.
Outsider ==
    /\ \E p \in DynIds :
           /\ Live(wiki, p)
           /\ _is_descendant_of_root(PageView(wiki, p))
           /\ wiki' = [wiki EXCEPT ![p].parent = SpaceHome,
                                   ![p].version = @ + 1]
    /\ UNCHANGED <<op, nops, procs, CONFIG_CACHE, files, loads>>

NextMove ==
    \/ Outsider
    \/ \E c \in Clients :
           \/ MoveStart(c, {TA, TC, RootTitle}, {TB, RootTitle})
           \/ MoveDetail(c)
           \/ MoveParent(c)
           \/ MoveParentDetail(c)
           \/ MovePut(c)

SpecMove == InitConc /\ [][NextMove]_vars

\* ------------------------------------------------------------------------
\* Concurrent upserts: each remote call of create_or_update_page is one step
\* ------------------------------------------------------------------------
\* create_or_update_page: the path is split; the walk starts at the root
UpsertStart(c) ==
    \E path \in {TC, <<"A", "/", "C">>, <<"C", "/", "D">>} :
        /\ Accept(c)
        /\ procs' = [procs EXCEPT ![c] =
                         [Fresh("upsert", path, <<"z">>) EXCEPT
                             !.pc = "look",
                             !.parts = Split(Strip(path)),
                             !.parent = [None EXCEPT !.id = root_page_id]]]
        /\ UNCHANGED <<wiki, op, CONFIG_CACHE, files, loads>>

\* get_page_by_title(part, current_parent_id) of resolve_or_create_path, or
\* get_page_by_title(page_title, parent_id) for the last segment: a segment
\* that exists becomes the parent of the next one, the leaf that exists is
\* handed to update_page, a missing one is created next
UpsertLook(c) ==
    LET e == get_page_by_title(CtxOf(c), Head(procs[c].parts),
                               procs[c].parent.id)
    IN  /\ Continue(c, "upsert", "look")
        /\ Step(c, e,
                IF IsNone(e.val)
                THEN [procs[c] EXCEPT !.pc = "post", !.calls = e.ctx.calls]
                ELSE IF Len(procs[c].parts) = 1
                THEN [procs[c] EXCEPT !.kind = "update", !.pc = "version",
                                      !.page = e.val, !.calls = e.ctx.calls]
                ELSE [procs[c] EXCEPT !.parts = Tail(@), !.parent = e.val,
                                      !.calls = e.ctx.calls])

\* The POST for a missing segment: with an empty body for an intermediate
\* segment, with the body for the leaf, whose creation ends the operation
UpsertPost(c) ==
    LET r == _request(CtxOf(c),
                      PostReq(Head(procs[c].parts), procs[c].parent.id,
                              IF Len(procs[c].parts) = 1 THEN procs[c].a2
                              ELSE <<>>))
    IN  /\ Continue(c, "upsert", "post")
        /\ r.status # 0
        /\ Step(c, r,
                IF Len(procs[c].parts) = 1 THEN Returned(procs[c], r)
                ELSE [procs[c] EXCEPT !.pc = "look", !.parts = Tail(@),
                                      !.parent = r.val.page,
                                      !.calls = r.ctx.calls])

NextUpsert ==
    \E c \in Clients :
        \/ UpsertStart(c)
        \/ UpsertLook(c)
        \/ UpsertPost(c)
        \/ UpdateVersion(c)
        \/ UpdatePut(c)

SpecUpsert == InitConc /\ [][NextUpsert]_vars

\* ------------------------------------------------------------------------
\* Path creation while the remote fails: call number at of the operation, if
\* there is one, is answered with status 500
\* ------------------------------------------------------------------------
EnsurePath ==
    \E path \in {<<>>, TA, TAB, ABC, <<"C", "/", "A">>}, at \in 0..6 :
        Finish("ensure", <<path, at>>,
               resolve_or_create_path(
                   Ctx(wiki, [NoFault EXCEPT !.at = at, !.status = 500,
                                             !.text = <<"e">>]),
                   path))

UpsertPath ==
    \E path \in {TC, TAB, ABC}, at \in 0..6 :
        Finish("upsert", <<path, <<"z">>, at>>,
               create_or_update_page(
                   Ctx(wiki, [NoFault EXCEPT !.at = at, !.status = 500,
                                             !.text = <<"e">>]),
                   path, <<"z">>))

NextPath ==
    \/ EnsurePath
    \/ UpsertPath

SpecPath == Init /\ [][NextPath]_vars

\* ------------------------------------------------------------------------
\* Trees and listings of a remote whose hierarchy may contain a cycle
\* ------------------------------------------------------------------------
\* The parent of the root is the space home or one of the pages 3 and 4;
\* pages 3 (titled A) and 4 (titled B) lie below the root or below each
\* other.  A remote whose root has a parent below itself lists the root among
\* the children of that page.
InitTree ==
    /\ wiki \in
           {[BaseWiki EXCEPT ![root_page_id].parent = p1,
                             ![3] = MkPage(TA, <<"x">>, 1, p3),
                             ![4] = MkPage(TB, <<"y">>, 1, p4)] :
               p1 \in {SpaceHome, 3, 4}, p3 \in {root_page_id, 4},
               p4 \in {root_page_id, 3}}
    /\ op = NoOp
    /\ nops = 0
    /\ procs = [c \in Clients |-> Idle]
    /\ InitConfig

\* The caller asks for a tree of any depth, from the root or from a title
TreeCall ==
    \E start \in {<<>>, TA, TB, TC}, depth \in -2..3 :
        Answer("tree", <<start, depth>>,
               get_page_tree(Ctx(wiki, NoFault), start, depth))

\* list_pages has no depth: it is called on hierarchies without a cycle
NextTree ==
    \/ TreeCall
    \/ NoCycle(wiki) /\ ReadList

SpecTree == InitTree /\ [][NextTree]_vars

\* ------------------------------------------------------------------------
\* Requests that load the endpoint configuration in parallel
\* ------------------------------------------------------------------------
SpecConfig == Init /\ [][NextConfig]_vars

\* ------------------------------------------------------------------------
\* HTTP requests: any Authorization header, malformed input, and a remote
\* that answers one call of the operation with another status
\* ------------------------------------------------------------------------
\* Error answers (401, 507) and 2xx answers other than 200 (201) at any of
\* the first three calls; 409 and 422 at the first; 202, or 200 without a
\* version in the JSON, at the first two.
\* <<Authorization header, fault>> of a request (requests with malformed
\* input meet a remote without faults): the right header, or no
\* header, a wrong token, another scheme, and two headers that hold the
\* secret but are not "Bearer " followed by it
Callers ==
    ({GoodAuth}
     \X ({NoFault}
         \cup {[at |-> a, status |-> s, text |-> <<"e">>, bare |-> FALSE] :
                   a \in 1..3, s \in {201, 401, 507}}
         \cup {[at |-> 1, status |-> s, text |-> <<"e">>, bare |-> FALSE] :
                   s \in {409, 422}}
         \cup {[at |-> a, status |-> 202, text |-> <<>>, bare |-> FALSE] :
                   a \in 1..2}
         \cup {[at |-> a, status |-> 200, text |-> <<>>, bare |-> TRUE] :
                   a \in 1..2}))
    \cup ({<<>>, <<Bearer, "wrong">>, <<"Basic ", "s3cret">>,
           <<Bearer, "wrong", Bearer, "s3cret">>, <<Bearer, " ", "s3cret">>}
          \X {NoFault})

ListRequest ==
    \E c \in Callers :
        Finish("list", <<c[1], c[2]>>,
               api_list_subpages(Ctx(wiki, c[2]), c[1]))

ReadRequest ==
    \E c \in Callers :
        Finish("read", <<c[1], c[2], TA>>,
               api_read_page(Ctx(wiki, c[2]), c[1], TA))

ChildrenRequest ==
    \E c \in Callers :
        Finish("children", <<c[1], c[2], TA>>,
               api_list_children(Ctx(wiki, c[2]), c[1], TA))

ParentRequest ==
    \E c \in Callers :
        Finish("parent", <<c[1], c[2], TB>>,
               api_get_parent(Ctx(wiki, c[2]), c[1], TB))

TreeRequest ==
    \E depth \in {Absent, Text(<<"x">>), Text(<<"-", "1">>)} :
        \E c \in Callers :
            /\ depth # Absent => c[2] = NoFault
            /\ Finish("tree", <<c[1], c[2], depth>>,
                      api_get_page_tree(Ctx(wiki, c[2]), c[1], depth, <<>>))

CreateRequest ==
    \E title \in {TC, <<>>}, parent \in {<<>>, TB} :
        \E c \in Callers :
            /\ title = <<>> => c[2] = NoFault
            /\ Finish("create", <<c[1], c[2], title, <<"z">>, parent>>,
                      api_create_page(Ctx(wiki, c[2]), c[1], title, <<"z">>,
                                      parent))

UpdateRequest ==
    \E c \in Callers :
        Finish("update", <<c[1], c[2], TA, <<"z">>>>,
               api_update_page(Ctx(wiki, c[2]), c[1], TA, <<"z">>))

RenameRequest ==
    \E in \in {<<TA, TC>>, <<<<>>, TC>>, <<TA, <<>>>>} :
        \E c \in Callers :
            /\ <<>> \in {in[1], in[2]} => c[2] = NoFault
            /\ Finish("rename", <<c[1], c[2], in[1], in[2]>>,
                      api_rename_page(Ctx(wiki, c[2]), c[1], in[1], in[2]))

MoveRequest ==
    \E parent \in {TA, <<>>} :
        \E c \in Callers :
            /\ parent = <<>> => c[2] = NoFault
            /\ Finish("move", <<c[1], c[2], TB, parent>>,
                      api_move_page(Ctx(wiki, c[2]), c[1], TB, parent))

DeleteRequest ==
    \E c \in Callers :
        Finish("delete", <<c[1], c[2], TB>>,
               api_delete_page(Ctx(wiki, c[2]), c[1], TB))

NextApi ==
    \/ ListRequest
    \/ ReadRequest
    \/ ChildrenRequest
    \/ ParentRequest
    \/ TreeRequest
    \/ CreateRequest
    \/ UpdateRequest
    \/ RenameRequest
    \/ MoveRequest
    \/ DeleteRequest

SpecApi == InitConc /\ [][NextApi]_vars

\* ------------------------------------------------------------------------
\* Observations used by the properties
\* ------------------------------------------------------------------------
InScope(w, id) ==
    /\ Live(w, id)
    /\ \/ id = root_page_id
       \/ \E i \in 1..Len(AncestorIds(w, id, Cardinality(PageIds))) :
              AncestorIds(w, id, Cardinality(PageIds))[i] = root_page_id

Outside(w, id) == Live(w, id) /\ ~InScope(w, id)

IsPut(c) == c.method = "PUT"
IsPost(c) == c.method = "POST"
Puts(calls) == SelectSeq(calls, IsPut)
Posts(calls) == SelectSeq(calls, IsPost)
IsOkPut(c) == c.method = "PUT" /\ c.status = 200
OkPutsTo(calls, id) == Cardinality({i \in 1..Len(calls) : IsOkPut(calls[i]) /\ calls[i].id = id})

\* ------------------------------------------------------------------------
\* Properties
\* ------------------------------------------------------------------------

\* C2: every operation leaves every page outside the root subtree as it was
\* (existence, title, body, version, parent), and a page that comes into
\* existence has its parent inside the root subtree.
C2_OutsideUnchanged ==
    [][/\ \A p \in PageIds : Outside(wiki, p) => wiki'[p] = wiki[p]
       /\ \A p \in PageIds : (~Live(wiki, p) /\ Live(wiki', p)) =>
              InScope(wiki', wiki'[p].parent)]_vars

\* C2 witness: a mutation by a title that an outside page carries succeeded
C2_Witness ==
    /\ op.name \in {"update", "rename", "delete"}
    /\ op.status = 200
    /\ \E p \in PageIds : Outside(wiki, p) /\ <<wiki[p].title>> = SubSeq(op.args, 1, 1)
    /\ Len(op.calls) >= 2

\* C3: a move whose new parent is the page itself or one of its descendants
\* ends with status 422, issues no PUT and leaves the wiki as it was.  The
\* page and the new parent are the ones the operation fetched (calls 2, 4).
MovedId(o) == o.calls[2].id
NewParentId(o) == o.calls[4].id
InOwnSubtree(w, x, p) ==
    \/ x = p
    \/ \E i \in 1..Len(AncestorIds(w, p, Cardinality(PageIds))) :
           AncestorIds(w, p, Cardinality(PageIds))[i] = x

C3_MoveCycleRejected ==
    [][(/\ op'.name = "move"
        /\ Len(op'.calls) >= 4
        /\ op'.calls[4].status = 200
        /\ InOwnSubtree(wiki, MovedId(op'), NewParentId(op')))
       => (/\ op'.status = 422
           /\ Puts(op'.calls) = <<>>
           /\ wiki' = wiki)]_vars

\* C3 witness: a move into the page's own subtree (below a descendant, not
\* onto the page itself) was rejected
C3_Witness ==
    /\ op.name = "move"
    /\ op.status = 422
    /\ Len(op.calls) = 4
    /\ MovedId(op) # NewParentId(op)
    /\ InOwnSubtree(wiki, MovedId(op), NewParentId(op))

\* C4: a successful update of a page at version N writes and returns N + 1;
\* in every operation the version of a page grows by one for each PUT the
\* remote accepted for it (at most one) and never decreases.
LastCall(o) == o.calls[Len(o.calls)]

C4_VersionStep ==
    [][/\ \A p \in PageIds :
              (Live(wiki, p) /\ Live(wiki', p)) =>
                  /\ wiki'[p].version = wiki[p].version + OkPutsTo(op'.calls, p)
                  /\ OkPutsTo(op'.calls, p) <= 1
       /\ (op'.name = "update" /\ op'.status = 200) =>
              /\ LastCall(op').method = "PUT"
              /\ LastCall(op').version = wiki[LastCall(op').id].version + 1
              /\ op'.val.version = wiki[LastCall(op').id].version + 1
              /\ wiki'[LastCall(op').id].version = op'.val.version]_vars

\* C4 witness: the second of two successful updates of the same page
C4_Witness ==
    /\ nops = 2
    /\ op.name = "update"
    /\ op.status = 200
    /\ LastCall(op).id = 3
    /\ op.val.version = 3
    /\ wiki[3].version = 3

\* C8: an upsert that follows an upsert which created the leaf of the same
\* path, with another body, issues no POST and one PUT (version + 1) for
\* the page the first call returned; afterwards that page carries the second
\* body and is the only page with the leaf title under its parent.
Leaf(path) == Split(Strip(path))[Len(Split(Strip(path)))]
LeafCreated(o) ==
    /\ o.name = "upsert"
    /\ o.status = 200
    /\ LastCall(o).method = "POST"
    /\ LastCall(o).title = Leaf(o.args[1])
    /\ Len(SelectSeq(o.calls, LAMBDA c : c.method = "POST" /\ c.title = Leaf(o.args[1]) /\ c.parent = LastCall(o).parent)) = 1
Siblings(w, id) ==
    {p \in PageIds : Live(w, p) /\ w[p].parent = w[id].parent
                                /\ w[p].title = w[id].title}

C8_UpsertTwice ==
    [][(/\ LeafCreated(op)
        /\ op'.name = "upsert"
        /\ nops' = nops + 1
        /\ op'.args[1] = op.args[1]
        /\ op'.args[2] # op.args[2])
       => (/\ op'.status = 200
           /\ Posts(op'.calls) = <<>>
           /\ Len(Puts(op'.calls)) = 1
           /\ Puts(op'.calls)[1].id = op.val.id
           /\ Puts(op'.calls)[1].version = wiki[op.val.id].version + 1
           /\ op'.val.id = op.val.id
           /\ wiki'[op.val.id].body = op'.args[2]
           /\ wiki'[op.val.id].title = Leaf(op.args[1])
           /\ wiki'[op.val.id].parent = wiki[op.val.id].parent
           /\ Siblings(wiki', op.val.id) = {op.val.id})]_vars

\* C8 witness: the second upsert of "A/B/C" updated the leaf that the
\* first one created
C8_Witness ==
    /\ nops = 2
    /\ op.name = "upsert"
    /\ op.args[1] = ABC
    /\ op.status = 200
    /\ Posts(op.calls) = <<>>
    /\ Len(Puts(op.calls)) = 1
    /\ op.val.id \in DynIds \ {2, 3, 4}
    /\ op.val.version = 2

\* C9: create_or_update_page("A/B/C") on a wiki with the root page in place
\* where B is absent under A (or A itself is absent) creates A under the
\* root only if A is absent, then
\* B under A, then C under B, in that order; a following
\* get_page_by_path("A/B/C") returns the created leaf, titled C.
ChildTitled(w, parent, title) ==
    IF \E c \in PageIds : Live(w, c) /\ w[c].parent = parent /\ w[c].title = title
    THEN CHOOSE c \in PageIds :
             /\ Live(w, c) /\ w[c].parent = parent /\ w[c].title = title
             /\ \A d \in PageIds :
                    (Live(w, d) /\ w[d].parent = parent /\ w[d].title = title)
                        => c <= d
    ELSE NoPage
AId(w) == ChildTitled(w, root_page_id, TA)
BAbsent(w) ==
    /\ Live(w, root_page_id)
    /\ AId(w) = NoPage \/ ChildTitled(w, AId(w), TB) = NoPage
PostTitles(calls) == [i \in 1..Len(Posts(calls)) |-> Posts(calls)[i].title]
PostParents(calls) == [i \in 1..Len(Posts(calls)) |-> Posts(calls)[i].parent]

C9_PathRoundTrip ==
    [][/\ (op'.name = "upsert" /\ op'.args[1] = ABC /\ nops' = nops + 1
              /\ BAbsent(wiki))
          => (/\ op'.status = 200
              /\ PostTitles(op'.calls) =
                     IF AId(wiki) = NoPage THEN <<TA, TB, TC>> ELSE <<TB, TC>>
              /\ AId(wiki) # NoPage => AId(wiki') = AId(wiki)
              /\ PostParents(op'.calls) =
                     IF AId(wiki) = NoPage
                     THEN <<root_page_id, AId(wiki'),
                            ChildTitled(wiki', AId(wiki'), TB)>>
                     ELSE <<AId(wiki'), ChildTitled(wiki', AId(wiki'), TB)>>
              /\ wiki'[op'.val.id].title = TC
              /\ wiki'[op'.val.id].parent = ChildTitled(wiki', AId(wiki'), TB)
              /\ ~Live(wiki, op'.val.id))
       /\ (LeafCreated(op) /\ op.args[1] = ABC
              /\ op'.name = "resolve" /\ op'.args[1] = ABC /\ nops' = nops + 1)
          => (/\ op'.status = 200
              /\ op'.val.id = op.val.id
              /\ op'.val.title = TC)]_vars

\* C9 witness: the resolution of "A/B/C" returned a page created by the
\* preceding operation
C9_Witness ==
    /\ nops = 2
    /\ op.name = "resolve"
    /\ op.args[1] = ABC
    /\ op.status = 200
    /\ op.val.id \in DynIds \ {2, 3, 4}
    /\ op.val.title = TC

\* C1: get_page_by_path returns nothing or a page inside the root subtree
C1_ResolvedInScope ==
    (op.name = "resolve" /\ op.status = 200 /\ ~IsNone(op.val))
        => InScope(wiki, op.val.id)

\* C1 witness: a single-segment path was resolved to an in-scope page although
\* a page outside the root subtree carries that title and is listed first
C1_Witness ==
    /\ op.name = "resolve"
    /\ op.status = 200
    /\ ~IsNone(op.val)
    /\ Len(Split(Strip(op.args[1]))) = 1
    /\ \E p \in PageIds :
           Outside(wiki, p) /\ wiki[p].title = op.args[1] /\ p < op.val.id

\* C10 (as claimed): a path that list_pages returned resolves to the page at
\* that position, the page whose titles from below the root down to itself,
\* joined by "/", are the path.
TitlePath(w, id) ==
    Join(SubSeq(TitlesOf(Ancestors(w, id)) \o <<w[id].title>>,
                Len(Ancestors(w, root_page_id)) + 2,
                Len(Ancestors(w, id)) + 1))

C10_ListedPathResolves ==
    [][(/\ op.name = "list" /\ op.status = 200
        /\ op'.name = "resolve"
        /\ op'.args[1] \in {op.val[i] : i \in DOMAIN op.val})
       => (/\ op'.status = 200
           /\ ~IsNone(op'.val)
           /\ InScope(wiki, op'.val.id)
           /\ TitlePath(wiki, op'.val.id) = op'.args[1])]_vars

\* C5: two concurrent mutations (update, rename or move) of one page that
\* read the same version N both submit N + 1; exactly one of them succeeds,
\* the other ends with the status the remote gave its write (409), which is
\* its only write and its last call, and the page is at version N + 1.
Submitted(p) == p.pc = "done" /\ Puts(p.calls) # <<>>
SameRead(p, q) ==
    /\ Submitted(p) /\ Submitted(q)
    /\ p.page.id = q.page.id
    /\ p.version = q.version
Lost(p) ==
    /\ p.status = 409
    /\ LastCall(p).method = "PUT"
    /\ LastCall(p).status = p.status
    /\ Len(Puts(p.calls)) = 1
Won(p) ==
    /\ p.status = 200
    /\ LastCall(p).status = 200
    /\ Len(Puts(p.calls)) = 1

C5_OneWriterWins ==
    \A c \in Clients, d \in Clients :
        (c # d /\ SameRead(procs[c], procs[d])) =>
            /\ Puts(procs[c].calls)[1].version = procs[c].version
            /\ Puts(procs[d].calls)[1].version = procs[d].version
            /\ \/ Won(procs[c]) /\ Lost(procs[d])
               \/ Won(procs[d]) /\ Lost(procs[c])
            /\ wiki[procs[c].page.id].version = procs[c].version

\* C5 witness: an update and a rename of page 3 read the same version; one
\* was accepted and the other was answered 409
C5_Witness ==
    \E c \in Clients, d \in Clients :
        /\ procs[c].kind = "update" /\ procs[d].kind = "rename"
        /\ SameRead(procs[c], procs[d])
        /\ procs[c].page.id = 3
        /\ {procs[c].status, procs[d].status} = {200, 409}

\* C6 (as claimed): a successful update leaves the title of the page as it
\* was immediately before the update's write.
UpdateWrote(c) ==
    /\ procs[c].kind = "update"
    /\ procs[c].pc = "put"
    /\ procs'[c].pc = "done"
    /\ procs'[c].status = 200

C6_UpdateKeepsTitle ==
    [][\A c \in Clients :
           UpdateWrote(c) =>
               wiki'[procs[c].page.id].title = wiki[procs[c].page.id].title]_vars

\* C7: a successful rename changes the title and the version of the page
\* and nothing else: body and parent are those stored immediately before
\* the rename's write.
RenameWrote(c) ==
    /\ procs[c].kind = "rename"
    /\ procs[c].pc = "put"
    /\ procs'[c].pc = "done"
    /\ procs'[c].status = 200

C7_RenameKeepsBodyAndParent ==
    [][\A c \in Clients :
           RenameWrote(c) =>
               /\ wiki'[procs[c].page.id].body = wiki[procs[c].page.id].body
               /\ wiki'[procs[c].page.id].parent = wiki[procs[c].page.id].parent
               /\ wiki'[procs[c].page.id].title = procs[c].a2
               /\ wiki'[procs[c].page.id].version =
                      wiki[procs[c].page.id].version + 1]_vars

\* C7 witness: a rename succeeded on a page whose body a concurrent update
\* replaced between the rename's resolution and its read of the version
C7_Witness ==
    \E c \in Clients, d \in Clients :
        /\ procs[c].kind = "rename" /\ procs[c].pc = "done"
        /\ procs[c].status = 200
        /\ procs[c].version = procs[c].page.version + 2
        /\ procs[d].kind = "update" /\ procs[d].status = 200
        /\ procs[d].page.id = procs[c].page.id
        /\ wiki[procs[c].page.id].body = procs[d].a2
        /\ wiki[procs[c].page.id].title = procs[c].a2

\* C11: list_pages returns one path for every proper descendant of the root
\* and nothing else, in pre-order (a page before its descendants, siblings
\* in listing order); each path is the titles from the root's child down to
\* the page joined by "/".
RECURSIVE PreOrder(_, _, _)
PreOrder(w, ids, fuel) ==
    IF ids = <<>> \/ fuel = 0 THEN <<>>
    ELSE <<Head(ids)>> \o PreOrder(w, ChildIds(w, Head(ids)), fuel - 1)
                       \o PreOrder(w, Tail(ids), fuel)
Below(w) == PreOrder(w, ChildIds(w, root_page_id), Cardinality(PageIds))
ProperDescendants(w) == {p \in PageIds : InScope(w, p) /\ p # root_page_id}

DepthAsked(o) ==
    IF o.args[2] = Absent THEN 2
    ELSE IF o.args[2] = Text(<<"0">>) THEN 0
    ELSE IF o.args[2] = Text(<<"1">>) THEN 1
    ELSE 2

\* The first page in scope with the title, in the remote's search order
FirstInScope(w, title) ==
    CHOOSE p \in PageIds :
        /\ InScope(w, p) /\ w[p].title = title
        /\ \A q \in PageIds : (InScope(w, q) /\ w[q].title = title) => p <= q

TreeStart(w, o) ==
    IF o.args[1] = <<>> THEN root_page_id ELSE FirstInScope(w, o.args[1])

RECURSIVE TreeMatches(_, _, _, _)
TreeMatches(w, node, id, d) ==
    /\ node.title = w[id].title
    /\ Len(node.children) = (IF d <= 0 THEN 0 ELSE Len(ChildIds(w, id)))
    /\ \A i \in 1..Len(node.children) :
           TreeMatches(w, node.children[i], ChildIds(w, id)[i], d - 1)

ChildListings(calls) == SelectSeq(calls, LAMBDA c : c.kind = "children")

C12_TreeDepth ==
    (op.name = "tree" /\ op.status = 200) =>
        /\ TreeMatches(wiki, op.val, TreeStart(wiki, op), DepthAsked(op))
        /\ DepthAsked(op) = 0 =>
               /\ op.val.children = <<>>
               /\ ChildListings(op.calls) = <<>>

\* C12 witness: a tree of depth 1 cut above a page that has children
C12_Witness ==
    /\ op.name = "tree"
    /\ op.status = 200
    /\ DepthAsked(op) = 1
    /\ \E i \in 1..Len(op.val.children) :
           /\ op.val.children[i].children = <<>>
           /\ ChildIds(wiki, ChildIds(wiki, root_page_id)[i]) # <<>>

\* C13 (as claimed): a list_pages that follows a successful delete of the
\* page resolved from path p does not contain p, and the page is no longer
\* reachable from the root.
DeletedId(o) == LastCall(o).id
ListAfterDelete ==
    /\ op.name = "delete" /\ op.status = 200
    /\ op'.name = "list" /\ op'.status = 200
    /\ nops' = nops + 1

MoveDone ==
    /\ op'.name = "move" /\ op'.status = 200 /\ nops' = nops + 1
MoveX == FirstInScope(wiki, op'.args[1])
MoveP == FirstInScope(wiki, op'.args[2])
MoveWritten ==
    /\ Len(Puts(op'.calls)) = 1
    /\ Puts(op'.calls)[1].id = MoveX
    /\ Puts(op'.calls)[1].kind = "parent"
    /\ Puts(op'.calls)[1].parent = MoveP
    /\ Puts(op'.calls)[1].title = wiki[MoveX].title
    /\ Puts(op'.calls)[1].version = wiki[MoveX].version + 1
    /\ wiki'[MoveX] = [wiki[MoveX] EXCEPT !.parent = MoveP,
                                          !.version = wiki[MoveX].version + 1]
    /\ \A q \in PageIds \ {MoveX} : wiki'[q] = wiki[q]
    /\ op'.val.title = wiki[MoveX].title
    /\ ~op'.val.old_parent_none
    /\ op'.val.old_parent_title = wiki[wiki[MoveX].parent].title
    /\ op'.val.new_parent_title = wiki[MoveP].title

\* C14 (as claimed): ... and X is no longer a child of its old parent.
C14_MoveLeavesOldParent ==
    [][MoveDone => (MoveWritten /\ wiki'[MoveX].parent # wiki[MoveX].parent)]_vars

\* C14 (amended): ... and X is no longer a child of its old parent unless P
\* is the old parent.
C14_MoveReparents ==
    [][MoveDone =>
           /\ MoveWritten
           /\ MoveP # wiki[MoveX].parent =>
                  wiki'[MoveX].parent # wiki[MoveX].parent]_vars

\* C14 witness: page 4 was moved from below page 3 to below the root
C14_Witness ==
    /\ op.name = "move"
    /\ op.status = 200
    /\ nops = 1
    /\ Puts(op.calls)[1].id = 4
    /\ wiki[4].parent = root_page_id
    /\ wiki[4].version = 3
    /\ wiki[3].parent = root_page_id
    /\ op.val.old_parent_title = wiki[3].title

\* C15: move_page ends with 404 and issues no PUT when the page to move is
\* not in scope or the new parent is not in scope: when no page in scope has
\* the title, and when the page the title search found is out of scope by
\* the time its details are fetched.
TitleInScope(w, title) == \E q \in PageIds : InScope(w, q) /\ w[q].title = title
ViewInScope(page) ==
    \/ page.id = root_page_id
    \/ root_page_id \in {page.ancestors[i].id : i \in 1..Len(page.ancestors)}
Refused(c) ==
    /\ procs'[c].pc = "done"
    /\ procs'[c].status = 404
    /\ Puts(procs'[c].calls) = <<>>
    /\ wiki' = wiki
MoveStep(c, pc) ==
    /\ procs[c].kind = "move" /\ procs[c].pc = pc /\ procs'[c] # procs[c]
MoveBegins(c) ==
    /\ procs[c].pc \in {"idle", "done"}
    /\ procs'[c] # procs[c]
    /\ procs'[c].kind = "move"

C16_RootTitleNeverMoves ==
    \A c \in Clients :
        (procs[c].kind = "move" /\ procs[c].a1 = wiki[root_page_id].title) =>
            /\ Puts(procs[c].calls) = <<>>
            /\ procs[c].pc = "done" => procs[c].status \in {404, 422}

\* C16 (amended): the root page is never moved: move_page issues no PUT for
\* the root's id, the root keeps its parent, and a move_page whose title
\* search resolved to the root itself issues no PUT at all and ends with
\* 404 or 422.
C16_RootNeverMoves ==
    /\ wiki[root_page_id].parent = SpaceHome
    /\ \A c \in Clients :
           procs[c].kind = "move" =>
               /\ \A i \in 1..Len(procs[c].calls) :
                      procs[c].calls[i].method = "PUT" =>
                          procs[c].calls[i].id # root_page_id
               /\ procs[c].page.id = root_page_id =>
                      /\ Puts(procs[c].calls) = <<>>
                      /\ procs[c].pc = "done" => procs[c].status \in {404, 422}

\* C16 witness: a move of the root to below page 4 was rejected with 422
\* after both pages and their details were fetched
C16_Witness ==
    \E c \in Clients :
        /\ procs[c].kind = "move"
        /\ procs[c].page.id = root_page_id
        /\ procs[c].parent.id = 4
        /\ procs[c].pc = "done"
        /\ procs[c].status = 422
        /\ Len(procs[c].calls) = 4

\* The calls of an operation that change a page
Writes(o) ==
    {i \in 1..Len(o.calls) : o.calls[i].method \in {"PUT", "DELETE"}}

\* Page id has the configured root among its ancestors in w
RootAbove(w, id) ==
    \E i \in 1..Len(Ancestors(w, id)) : Ancestors(w, id)[i].id = root_page_id

\* C17: update, rename and delete only write pages that have the root in
\* their ancestor chain, and leave the root page itself as it was.
C17_RootNeverWritten ==
    [][op'.name \in {"update", "rename", "delete"} =>
           /\ \A i \in Writes(op') : RootAbove(wiki, op'.calls[i].id)
           /\ wiki'[root_page_id] = wiki[root_page_id]]_vars

\* The bare title an operation was given: the title of list-children and
\* get-parent, the startTitle of get-tree, the parentTitle of create
BareTitle(o) ==
    CASE o.name \in {"children", "parent", "tree"} -> o.args[1]
      [] o.name = "create" -> o.args[3]
      [] OTHER -> <<>>

\* The operation stopped with 404 right after its title search
StoppedAtSearch(o, title) ==
    /\ o.status = 404
    /\ Len(o.calls) = 1
    /\ o.calls[1].kind = "search"
    /\ o.calls[1].title = title

\* C18: list-children, get-parent, get-tree with startTitle and create with
\* parentTitle answer 404 when no page in scope has the title, whether or
\* not a page outside the root subtree has it, and make no remote call after
\* the title search; the remote is left unchanged.
C18_BareTitleNotFound ==
    [][(/\ BareTitle(op') # <<>>
        /\ ~TitleInScope(wiki, BareTitle(op'))) =>
           /\ StoppedAtSearch(op', BareTitle(op'))
           /\ wiki' = wiki]_vars

\* C18 witness: a create below a parent title that only a page outside the
\* root subtree carries was refused after the title search
C18_Witness ==
    /\ op.name = "create"
    /\ BareTitle(op) = TA
    /\ ~TitleInScope(wiki, TA)
    /\ \E q \in PageIds : Outside(wiki, q) /\ wiki[q].title = TA
    /\ StoppedAtSearch(op, TA)

\* The remote state w with the space home, the parent of the root, retitled
Retitled(w) == [w EXCEPT ![SpaceHome].title = <<"G">>]

\* The remote state w without the pages outside the root subtree that are
\* not ancestors of the root
Emptied(w) ==
    [p \in PageIds |->
        IF Outside(w, p) /\ p # SpaceHome THEN FreePage ELSE w[p]]

\* Remote states that differ from w only outside the root subtree
Variants(w) == {Retitled(w), Emptied(w)}

\* The read operation o, with the same arguments, on the remote state w
ReadAgain(o, w) ==
    CASE o.name = "list" -> api_list_subpages(Ctx(w, NoFault), GoodAuth)
      [] o.name = "read" -> api_read_page(Ctx(w, NoFault), GoodAuth, o.args[1])
      [] o.name = "children" ->
             api_list_children(Ctx(w, NoFault), GoodAuth, o.args[1])
      [] o.name = "parent" ->
             api_get_parent(Ctx(w, NoFault), GoodAuth, o.args[1])
      [] o.name = "tree" ->
             api_get_page_tree(Ctx(w, NoFault), GoodAuth, o.args[2], o.args[1])

\* C19: the response of a read operation (read by title, list-children,
\* get-parent, get-tree, list pages) is the same on every remote state
\* that differs only outside the root subtree.
C19_NoLeak ==
    [][op'.name \in {"list", "read", "children", "parent", "tree"} =>
           \A v \in Variants(wiki) :
               /\ ReadAgain(op', v).status = op'.status
               /\ ReadAgain(op', v).val = op'.val]_vars

\* Title of the immediate parent of page id and the breadcrumb path of id
ParentOf(w, id) ==
    [title |-> w[w[id].parent].title,
     path |-> TitlesOf(Ancestors(w, id)) \o <<w[id].title>>,
     none |-> FALSE]

\* C20: get-parent of a title that resolves to the root answers null with
\* status 200; for any other page in scope it answers the title of the
\* page's immediate parent and the page's breadcrumb path.
C20_ParentOrNull ==
    (op.name = "parent" /\ TitleInScope(wiki, op.args[1])) =>
        /\ op.status = 200
        /\ op.val = IF FirstInScope(wiki, op.args[1]) = root_page_id
                    THEN [title |-> <<>>, path |-> <<>>, none |-> TRUE]
                    ELSE ParentOf(wiki, FirstInScope(wiki, op.args[1]))

\* A path of more than one segment
IsPath(p) == \E i \in 1..Len(p) : p[i] = Slash

\* The page the read operation resolves path p to in the remote state w
ReadTarget(w, p) == get_page_by_path(Ctx(w, NoFault), p).val

\* C21: list-children, get-parent and move given a multi-segment path that
\* the read operation resolves to page X succeed in addressing X: they issue
\* a remote call on X (child listing, page fetch or PUT).
C21_PathAddressesPage ==
    [][(/\ op'.name \in {"children", "parent", "move"}
        /\ IsPath(op'.args[1])
        /\ ~IsNone(ReadTarget(wiki, op'.args[1]))) =>
           \E i \in 1..Len(op'.calls) :
               op'.calls[i].id = ReadTarget(wiki, op'.args[1]).id]_vars

\* The Authorization header and the fault of the last request (SpecApi)
AuthOf(o) == o.args[1]
FaultOf(o) == o.args[2]

\* C22: a request to any page operation whose Authorization header is not
\* "Bearer " followed by the shared secret is answered 403 UNAUTHORIZED, also
\* when its input is malformed, and no call reaches the remote.
C22_Unauthorized ==
    (op.name # "none" /\ AuthOf(op) # GoodAuth) =>
        /\ Reply(op).status = 403
        /\ Reply(op).code = "UNAUTHORIZED"
        /\ ~Reply(op).success
        /\ op.calls = <<>>

\* The input of the last request is malformed: a depth that is no integer
\* or negative, no title, no newParentTitle, no old_title or new_title
Malformed(o) ==
    \/ o.name = "tree" /\ o.args[3] \in {Text(<<"x">>), Text(<<"-", "1">>)}
    \/ o.name = "create" /\ o.args[3] = <<>>
    \/ o.name = "move" /\ o.args[4] = <<>>
    \/ o.name = "rename" /\ <<>> \in {o.args[3], o.args[4]}

\* C23: an authorized request with malformed input is answered 400
\* INVALID_INPUT without any call to the remote; a get-tree request without
\* a depth is accepted and answers the tree of depth 2.
C23_InvalidInput ==
    /\ (op.name # "none" /\ AuthOf(op) = GoodAuth /\ Malformed(op)) =>
           /\ Reply(op).status = 400
           /\ Reply(op).code = "INVALID_INPUT"
           /\ op.calls = <<>>
    /\ (/\ op.name = "tree" /\ AuthOf(op) = GoodAuth
        /\ FaultOf(op) = NoFault /\ op.args[3] = Absent) =>
           /\ op.status = 200
           /\ op.val = get_page_tree(Ctx(wiki, NoFault), <<>>, 2).val

\* C23 witness: a get-tree request with depth -1 was refused, and so was a
\* rename without new_title
C23_Witness ==
    /\ op.name # "none"
    /\ AuthOf(op) = GoodAuth
    /\ \/ op.name = "tree" /\ op.args[3] = Text(<<"-", "1">>)
       \/ op.name = "rename" /\ op.args[4] = <<>>
    /\ Reply(op).status = 400

\* The calls of operation o that went through _request (delete_page sends
\* its DELETE itself)
Requested(o) == {i \in 1..Len(o.calls) : o.calls[i].method # "DELETE"}

\* C24: _request lets every answer with a 2xx status through and fails, with
\* the status of the answer, exactly on the others; a create or update whose
\* POST or PUT the remote answers with a 2xx status is reported as a success.
C24_Every2xxPasses ==
    /\ \A i \in Requested(op) :
           IF op.calls[i].status \in 200..299
           THEN i = Len(op.calls) => op.status = 200
           ELSE i = Len(op.calls) /\ op.status = op.calls[i].status
    /\ (/\ op.name \in {"create", "update"}
        /\ op.calls # <<>>
        /\ LastCall(op).method \in {"POST", "PUT"}
        /\ LastCall(op).status \in 200..299) => Reply(op).success

\* The calls of operation o that the remote answered with a non-2xx status
Refusals(o) ==
    {i \in 1..Len(o.calls) : o.calls[i].status \notin 200..299}

\* The body text of the remote's answer to call i of operation o
AnswerText(o, i) == IF i = FaultOf(o).at THEN FaultOf(o).text ELSE <<>>

\* C25: when the remote answers a call of an operation with a non-success
\* status s, the HTTP response has status s and the remote's body text as
\* its message, and the operation issues no further call.
C25_RemoteStatusSurfaced ==
    op.name # "none" =>
        \A i \in Refusals(op) :
            /\ i = Len(op.calls)
            /\ Reply(op).status = op.calls[i].status
            /\ Reply(op).message = AnswerText(op, i)
            /\ ~Reply(op).success

\* The code the claim fixes for the status of a failure
ListedCode(status) ==
    CASE status = 400 -> "INVALID_INPUT"
      [] status = 403 -> "UNAUTHORIZED"
      [] status = 404 -> "NOT_FOUND"
      [] status = 409 -> "VERSION_CONFLICT"
      [] status = 422 -> "INVALID_OPERATION"
      [] OTHER -> "INTERNAL_ERROR"

\* The outcome of request o is neither a return nor an abort with a status
\* that has an HTTP exception
Unexpected(o) == o.status \notin Aborter \cup {200}

\* The parts of the envelope that do not depend on the code table
EnvelopeShape(o) ==
    /\ DOMAIN Reply(o) = {"status", "success", "code", "message", "data"}
    /\ Reply(o).success <=> Reply(o).code = "OK"
    /\ Reply(o).success => Reply(o).status = 200
    /\ ~Reply(o).success => Reply(o).data = <<"null">> /\ Reply(o).status # 200
    /\ Unexpected(o) =>
           /\ Reply(o).status = 500
           /\ Reply(o).code = "INTERNAL_ERROR"
           /\ Reply(o).message = <<"An unexpected error occurred.">>

\* C26 (as claimed): every response is an envelope; a failure has data null
\* and the code listed for its status, INTERNAL_ERROR for every status that
\* is not one of 400, 403, 404, 409, 422, 500.
C26_CodeAsListed ==
    op.name # "none" =>
        /\ EnvelopeShape(op)
        /\ ~Reply(op).success => Reply(op).code = ListedCode(Reply(op).status)

\* C26 (amended): as claimed, with status 401 carrying the code UNAUTHORIZED
\* like 403.
C26_Envelope ==
    op.name # "none" =>
        /\ EnvelopeShape(op)
        /\ ~Reply(op).success =>
               Reply(op).code = IF Reply(op).status = 401 THEN "UNAUTHORIZED"
                                ELSE ListedCode(Reply(op).status)

\* C26 witness: the remote refused the service's credentials with 401 and
\* the failure envelope carries UNAUTHORIZED
C26_Witness ==
    /\ op.name # "none"
    /\ op.calls # <<>>
    /\ LastCall(op).status = 401
    /\ Reply(op) = error_response("UNAUTHORIZED", <<"e">>, 401)

\* The parent a create request asks for: the root, or the first page in
\* scope that carries the parent title
AskedParent(w, o) ==
    IF o.args[5] = <<>> THEN root_page_id ELSE FirstInScope(w, o.args[5])

\* The remote's answer to the POST of create request o left out the version
VersionOmitted(o) ==
    /\ FaultOf(o).bare
    /\ FaultOf(o).at = Len(o.calls)

\* C27: a create issues at most one POST; when it succeeds it issued exactly
\* one, whose ancestor is the root when no parent title was given and the
\* in-scope page P when the parent title resolves to P, and the result
\* carries the id the remote assigned to the new page, the given title and
\* the remote's version number, or 1 when the answer has no version.
C27_CreateOnePost ==
    [][op'.name = "create" =>
           /\ Len(Posts(op'.calls)) <= 1
           /\ op'.status = 200 =>
                  /\ Len(Posts(op'.calls)) = 1
                  /\ LastCall(op').method = "POST"
                  /\ LastCall(op').parent = AskedParent(wiki, op')
                  /\ LastCall(op').title = op'.args[3]
                  /\ ~Live(wiki, op'.val.id)
                  /\ Live(wiki', op'.val.id)
                  /\ wiki'[op'.val.id].parent = AskedParent(wiki, op')
                  /\ wiki'[op'.val.id].title = op'.args[3]
                  /\ op'.val.title = op'.args[3]
                  /\ op'.val.version = IF VersionOmitted(op') THEN 1
                                       ELSE wiki'[op'.val.id].version]_vars

\* C27 witness: a page was created below the in-scope page titled B, and the
\* remote's answer had no version
C27_Witness ==
    /\ op.name = "create"
    /\ op.status = 200
    /\ op.args[5] = TB
    /\ LastCall(op).parent = 4
    /\ VersionOmitted(op)
    /\ op.val.version = 1
    /\ Live(wiki, op.val.id)

\* The body the caller of create or update request o gave
GivenBody(o) == o.args[4]

\* The calls of operation o that carry a page body
BodyWrites(o) ==
    {i \in 1..Len(o.calls) : o.calls[i].kind \in {"create", "body"}}

\* C28: every body that create and update send to the remote is the
\* converter's output for the caller's body.
C28_BodyConverted ==
    op.name \in {"create", "update"} =>
        \A i \in BodyWrites(op) :
            op.calls[i].body = to_confluence_storage(GivenBody(op))

\* The DELETE calls of operation o
Deletes(o) == {i \in 1..Len(o.calls) : o.calls[i].method = "DELETE"}

\* C29: a delete that reaches delete_page issues exactly one DELETE, its
\* last remote call; it succeeds, returning the title of the deleted page,
\* exactly when the remote answers 200, 202 or 204, and fails with the
\* status and the body of the remote's answer otherwise.
C29_DeleteOutcome ==
    (op.name = "delete" /\ Deletes(op) # {}) =>
        /\ Deletes(op) = {Len(op.calls)}
        /\ IF LastCall(op).status \in {200, 202, 204}
           THEN /\ Reply(op).success
                /\ Reply(op).data = [deletedTitle |-> op.args[3]]
           ELSE /\ ~Reply(op).success
                /\ Reply(op).status = LastCall(op).status
                /\ Reply(op).message = AnswerText(op, Len(op.calls))

\* C30: whatever the interleaving of concurrent moves, no page of the remote
\* is its own ancestor and every live page that was below the root is still
\* below the root.
C30_NoCycleUnderMoves ==
    /\ NoCycle(wiki)
    /\ \A p \in {OldId, 3, 4} : Live(wiki, p) => InScope(wiki, p)

\* ------------------------------------------------------------------------
\* C31: concurrent upserts of one path
\* ------------------------------------------------------------------------
\* The requests of both clients are upserts of the same path
SamePathUpserts ==
    /\ \A c \in Clients : procs[c].parts # <<>>
    /\ procs["c1"].a1 = procs["c2"].a1

\* The POSTs client c issued that the remote accepted
OkPosts(c) ==
    {i \in 1..Len(procs[c].calls) :
        IsPost(procs[c].calls[i]) /\ procs[c].calls[i].status = 200}

\* Two live pages with the same title below the same parent
TwinSiblings(w) ==
    \E p \in DynIds, q \in DynIds :
        /\ p # q /\ Live(w, p) /\ Live(w, q)
        /\ w[p].parent = w[q].parent
        /\ w[p].title = w[q].title

\* C31: under every interleaving of two concurrent create_or_update_page
\* calls with the same path, no title is POSTed twice under the same parent,
\* and the wiki never holds two sibling pages with the same title.
C31_UpsertCreatesOnce ==
    SamePathUpserts =>
        /\ \A i \in OkPosts("c1"), j \in OkPosts("c2") :
               ~(/\ procs["c1"].calls[i].title = procs["c2"].calls[j].title
                 /\ procs["c1"].calls[i].parent = procs["c2"].calls[j].parent)
        /\ ~TwinSiblings(wiki)

\* ------------------------------------------------------------------------
\* C32: the root subtree is closed under the mutating operations
\* ------------------------------------------------------------------------
Mutations == {"create", "update", "rename", "move", "upsert"}

\* The pages the step created
Created(w, v) == {p \in PageIds : ~Live(w, p) /\ Live(v, p)}

\* C32: after a create, update, rename, move or upsert, every page that was
\* in scope before it and every page it created is in scope: no operation
\* moves or creates a page outside the root subtree.
C32_ScopeClosed ==
    [][op'.name \in Mutations =>
          \A p \in PageIds :
              (InScope(wiki, p) \/ p \in Created(wiki, wiki')) =>
                  InScope(wiki', p)]_vars

\* A create or upsert has added a page, and a move has then re-parented a
\* page of the root subtree
C32_Witness ==
    /\ op.name = "move"
    /\ op.status = 200
    /\ \E i \in 1..Len(op.calls) : IsPut(op.calls[i]) /\ op.calls[i].status = 200
    /\ \E p \in DynIds : Live(wiki, p) /\ wiki[p].version = 1 /\ p \notin 0..4

\* ------------------------------------------------------------------------
\* C33: one terminal write
\* ------------------------------------------------------------------------
\* The calls of an operation that change the remote wiki
Mutating(calls) ==
    {i \in 1..Len(calls) : calls[i].method \in {"PUT", "POST", "DELETE"}}

\* C33: update, rename and move issue at most one mutating remote call, a
\* PUT, and it is the last remote call of the operation; when the operation
\* ends before the PUT (a failed resolution, version read, body read, scope
\* or cycle check) the remote wiki is as it was before the operation.
C33_SingleTerminalWrite ==
    [][op'.name \in {"update", "rename", "move"} =>
          /\ Cardinality(Mutating(op'.calls)) <= 1
          /\ \A i \in Mutating(op'.calls) :
                 IsPut(op'.calls[i]) /\ i = Len(op'.calls)
          /\ Mutating(op'.calls) = {} => wiki' = wiki]_vars

\* An update, rename or move was stopped by a call that failed after its
\* first call and before its PUT
C33_Witness ==
    /\ op.name \in {"update", "rename", "move"}
    /\ op.status # 200
    /\ Len(op.calls) >= 2
    /\ Mutating(op.calls) = {}
    /\ op.calls[Len(op.calls)].status \notin 200..299

\* ------------------------------------------------------------------------
\* C34: resolve_or_create_path
\* ------------------------------------------------------------------------
\* The segments of a path as resolve_or_create_path walks them
PartsOf(path) == IF path # <<>> THEN Split(Strip(path)) ELSE <<>>

\* The page the walk of the segments reaches from parent in wiki w, NoPage
\* when a segment has no page
RECURSIVE ChainId(_, _, _)
ChainId(w, parts, parent) ==
    IF parts = <<>> THEN parent
    ELSE IF ChildTitled(w, parent, Head(parts)) = NoPage THEN NoPage
    ELSE ChainId(w, Tail(parts), ChildTitled(w, parent, Head(parts)))

\* The number of leading segments that have a page in wiki w
RECURSIVE Known(_, _, _)
Known(w, parts, parent) ==
    IF parts = <<>> \/ ChildTitled(w, parent, Head(parts)) = NoPage THEN 0
    ELSE 1 + Known(w, Tail(parts), ChildTitled(w, parent, Head(parts)))

EnsuredParts(o) == PartsOf(o.args[1])

\* C34: resolve_or_create_path, on a remote that answers every call, POSTs
\* exactly the segments from the first one that has no page among the
\* children of the current parent to the last one, in order, each with an
\* empty body and the page of the previous segment (the root for the first)
\* as its parent; no existing page is changed, and the result is the id of
\* the page of the last segment, the root id for an empty path.
C34_ResolveOrCreate ==
    [][(op'.name = "ensure" /\ op'.args[2] = 0) =>
          /\ op'.status = 200
          /\ PostTitles(op'.calls) =
                 SubSeq(EnsuredParts(op'),
                        Known(wiki, EnsuredParts(op'), root_page_id) + 1,
                        Len(EnsuredParts(op')))
          /\ \A i \in 1..Len(Posts(op'.calls)) :
                 /\ Posts(op'.calls)[i].body = <<>>
                 /\ Posts(op'.calls)[i].parent =
                        ChainId(wiki',
                                SubSeq(EnsuredParts(op'), 1,
                                       Known(wiki, EnsuredParts(op'),
                                             root_page_id) + i - 1),
                                root_page_id)
          /\ Cardinality(Created(wiki, wiki')) = Len(Posts(op'.calls))
          /\ \A p \in Created(wiki, wiki') : wiki'[p].body = <<>>
          /\ \A p \in PageIds : Live(wiki, p) => wiki'[p] = wiki[p]
          /\ Puts(op'.calls) = <<>>
          /\ op'.val = ChainId(wiki', EnsuredParts(op'), root_page_id)
          /\ op'.val # NoPage
          /\ EnsuredParts(op') = <<>> => op'.val = root_page_id]_vars

\* "A/B/C" was resolved where A existed and B did not: B and C were created;
\* or "C/A" where an A existed below the root but not below the new C
C34_Witness ==
    /\ op.name = "ensure"
    /\ op.args[2] = 0
    /\ op.status = 200
    /\ \/ op.args[1] = ABC /\ PostTitles(op.calls) = <<TB, TC>>
       \/ /\ op.args[1] = <<"C", "/", "A">>
          /\ PostTitles(op.calls) = <<TC, TA>>
          /\ ChildTitled(wiki, root_page_id, TA) # NoPage

\* ------------------------------------------------------------------------
\* C35: a create that fails
\* ------------------------------------------------------------------------
\* The number of the call the remote answered with status 500, 0 for none
FailAt(o) == o.args[Len(o.args)]

\* The remote failed a POST of operation o
CreateFailed(o) ==
    /\ o.name \in {"ensure", "upsert"}
    /\ FailAt(o) \in 1..Len(o.calls)
    /\ IsPost(o.calls[FailAt(o)])

\* C35: when the POST for a segment fails inside resolve_or_create_path or
\* create_or_update_page, the operation ends with that failure and issues no
\* further call; the pages created for the segments before it stay (there is
\* no DELETE), and no other page is created or changed.
C35_CreateFailsFast ==
    [][CreateFailed(op') =>
          /\ op'.status = 500
          /\ op'.val = <<"e">>
          /\ Len(op'.calls) = FailAt(op')
          /\ \A i \in 1..Len(op'.calls) :
                 op'.calls[i].method \in {"GET", "POST"}
          /\ Cardinality(Created(wiki, wiki')) = Len(Posts(op'.calls)) - 1
          /\ \A i \in 1..(Len(Posts(op'.calls)) - 1) :
                 \E p \in Created(wiki, wiki') :
                     /\ wiki'[p].title = Posts(op'.calls)[i].title
                     /\ wiki'[p].parent = Posts(op'.calls)[i].parent
          /\ \A p \in PageIds : Live(wiki, p) => wiki'[p] = wiki[p]]_vars

\* The POST for the second missing segment failed: the page of the first one
\* is in the wiki, without a child
C35_Witness ==
    /\ CreateFailed(op)
    /\ Len(Posts(op.calls)) = 2
    /\ Posts(op.calls)[1].status = 200
    /\ Posts(op.calls)[2].status = 500
    /\ \E p \in DynIds :
           /\ Live(wiki, p)
           /\ wiki[p].title = Posts(op.calls)[1].title
           /\ wiki[p].parent = Posts(op.calls)[1].parent
           /\ \A q \in PageIds : Live(wiki, q) => wiki[q].parent # p

\* ------------------------------------------------------------------------
\* C36: the first search result in scope wins
\* ------------------------------------------------------------------------
\* The result list of the remote's title search
SearchResults(w, title) == RemoteSearch(w, title).data.results

\* The positions of the results that lie in the root subtree
Hits(w, title) ==
    {i \in 1..Len(SearchResults(w, title)) :
        InScope(w, SearchResults(w, title)[i].id)}

FirstHit(w, title) ==
    CHOOSE i \in Hits(w, title) : \A j \in Hits(w, title) : i <= j

\* The operation resolved a path of one segment
OneSegment(o) ==
    /\ o.name = "resolve"
    /\ Strip(o.args[1]) # <<>>
    /\ Len(Split(Strip(o.args[1]))) = 1

SegmentOf(o) == Split(Strip(o.args[1]))[1]

TitlesAboveRoot(w) ==
    {w[AncestorIds(w, root_page_id, Cardinality(PageIds))[i]].title :
        i \in 1..Len(AncestorIds(w, root_page_id, Cardinality(PageIds)))}

\* path is a breadcrumb from the configured root to a page titled title
PathFromRoot(w, path, title) ==
    /\ path # <<>>
    /\ path[1] = w[root_page_id].title
    /\ path[Len(path)] = title
    /\ \A i \in 1..Len(path) : path[i] \notin TitlesAboveRoot(w)

RECURSIVE NodePathsFromRoot(_, _)
NodePathsFromRoot(w, node) ==
    /\ PathFromRoot(w, node.path, node.title)
    /\ \A i \in 1..Len(node.children) : NodePathsFromRoot(w, node.children[i])

\* C37: the path of every node returned by get_page_tree and of every entry
\* returned by get_page_children starts with the title of the configured
\* root, ends with the node's own title and holds no title of a page above
\* the configured root.
C37_BreadcrumbFromRoot ==
    /\ (op.name = "children" /\ op.status = 200) =>
           \A i \in 1..Len(op.val) :
               PathFromRoot(wiki, op.val[i].path, op.val[i].title)
    /\ (op.name = "tree" /\ op.status = 200) => NodePathsFromRoot(wiki, op.val)

\* ------------------------------------------------------------------------
\* C38: get_page_tree completes for every depth on every hierarchy, also one
\* with a cycle through the root: the tree it returns is at most depth
\* levels high (no level at all for a negative depth) and it listed the
\* children of exactly the nodes above the last level; list_pages completes
\* on every hierarchy without a cycle after listing the children of the
\* root and of each page it returns.
\* ------------------------------------------------------------------------
RECURSIVE TreeHeight(_)
RECURSIVE ForestHeight(_)
TreeHeight(node) ==
    IF node.children = <<>> THEN 0 ELSE 1 + ForestHeight(node.children)

ForestHeight(nodes) ==
    IF nodes = <<>> THEN 0
    ELSE IF TreeHeight(Head(nodes)) >= ForestHeight(Tail(nodes))
    THEN TreeHeight(Head(nodes))
    ELSE ForestHeight(Tail(nodes))

\* The number of nodes of a tree that lie above level depth
RECURSIVE Expanded(_, _)
RECURSIVE ExpandedIn(_, _)
Expanded(node, depth) ==
    IF depth <= 0 THEN 0 ELSE 1 + ExpandedIn(node.children, depth - 1)

ExpandedIn(nodes, depth) ==
    IF nodes = <<>> THEN 0
    ELSE Expanded(Head(nodes), depth) + ExpandedIn(Tail(nodes), depth)

LevelsAsked(o) == IF o.args[2] < 0 THEN 0 ELSE o.args[2]

C38_TreeAndListTerminate ==
    /\ op.name = "tree" =>
           /\ op.status \in {200, 404}
           /\ op.status = 200 =>
                  /\ TreeHeight(op.val) <= LevelsAsked(op)
                  /\ Len(ChildListings(op.calls))
                         = Expanded(op.val, LevelsAsked(op))
                  /\ Len(ChildListings(op.calls)) + 2 >= Len(op.calls)
    /\ op.name = "list" =>
           /\ op.status = 200
           /\ Len(op.calls) = Len(op.val) + 1
           /\ Len(op.val) =
                  Cardinality({p \in PageIds :
                                  /\ Live(wiki, p)
                                  /\ \E i \in 1..Len(Ancestors(wiki, p)) :
                                         Ancestors(wiki, p)[i].id = root_page_id})

\* A tree of depth 3 over a hierarchy with a cycle through the root: the
\* root comes back below itself and the tree is three levels high
C38_Witness ==
    /\ op.name = "tree" /\ op.status = 200 /\ op.args[2] = 3
    /\ ~NoCycle(wiki)
    /\ TreeHeight(op.val) = 3
    /\ \E i \in 1..Len(op.val.children) :
           \E j \in 1..Len(op.val.children[i].children) :
               op.val.children[i].children[j].title = op.val.title

\* ------------------------------------------------------------------------
\* C39: the configuration of an endpoint name is loaded at most once: a call
\* of load_config for a cached name returns the cached configuration without
\* opening the file, an entry of the cache never changes or disappears, the
\* file of a name is read successfully only while the name has no entry and
\* no other request holds a configuration read for it, and a call that fails
\* (404, 500) leaves the cache without an entry for its name.
\* ------------------------------------------------------------------------
Cached(n) == n \in DOMAIN CONFIG_CACHE

\* Client c starts a call of load_config in this step
LoadBegins(c) ==
    /\ loads[c].pc \in {"idle", "done"}
    /\ loads'[c] # loads[c]

\* Client c reads a complete configuration from the file in this step
LoadReads(c) == loads[c].pc = "open" /\ loads'[c].pc = "store"

\* The call of client c fails in this step
LoadFails(c) ==
    /\ loads'[c] # loads[c]
    /\ loads'[c].pc = "done"
    /\ loads'[c].status \in {404, 500}

LoadedOnce ==
    /\ \A n \in DOMAIN CONFIG_CACHE :
           /\ n \in DOMAIN CONFIG_CACHE'
           /\ CONFIG_CACHE'[n] = CONFIG_CACHE[n]
    /\ \A c \in Clients :
           /\ (LoadBegins(c) /\ Cached(loads'[c].name)) =>
                  /\ loads'[c].pc = "done"
                  /\ loads'[c].status = 200
                  /\ loads'[c].config = CONFIG_CACHE[loads'[c].name]
           /\ LoadReads(c) =>
                  /\ ~Cached(loads[c].name)
                  /\ \A d \in Clients \ {c} :
                         ~(loads[d].pc = "store" /\ loads[d].name = loads[c].name)
           /\ LoadFails(c) => loads'[c].name \notin DOMAIN CONFIG_CACHE'

C39_LoadedOnce == [][LoadedOnce]_vars

====
